---------------------------- MODULE Spec2Model ----------------------------
(***************************************************************************)
(* Command dispatch and handoff engine of the Roblox Studio MCP bridge     *)
(* (src/src/rbx_studio_server.rs).                                         *)
(*                                                                         *)
(* Two bridge processes are modelled: "P", the instance that bound the     *)
(* loopback port and serves /request, /response and /proxy, and "S", the   *)
(* instance that found the port busy and runs dud_proxy_loop.  Each owns   *)
(* one AppState (process_queue, output_map, watch channel).                *)
(*                                                                         *)
(* Every critical section of the tokio Mutex is straight-line code with no *)
(* await inside, so each one is a single atomic action; everything that    *)
(* happens after the guard is dropped (the trigger.send pulse, the inbox   *)
(* wait, the outbound HTTP call) is a separate action.  The variable lock  *)
(* names the task that holds the guard of each AppState: state_lock is the *)
(* step in which lock().await completes, and a section that starts with    *)
(* the lock free stands for that step and the section taken together.      *)
(*                                                                         *)
(* tokio::sync::watch is modelled by what a receiver can observe: a        *)
(* receiver holds the version it last saw, changed() is ready exactly when *)
(* that version differs from the channel's, and Receiver::clone copies the *)
(* version of the receiver it is cloned from.  The model keeps, for every  *)
(* receiver, the boolean "my version differs from the channel's version".  *)
(*                                                                         *)
(* The life of each process (src/src/main.rs) is modelled from its command *)
(* line to the result of run_server: the selection of the command, the     *)
(* bind of the port, the background task (HTTP server or forwarder), the   *)
(* wait for the MCP transport, the shutdown latch and the join of the      *)
(* task.  "P" is the process that binds while the port is free, "S" the    *)
(* one that binds while "P" holds it.                                      *)
(***************************************************************************)
EXTENDS Naturals, Sequences, FiniteSets, TLC

\* ------------------------------------------------------------------ bounds
MaxDispatch == 2        \* tool calls issued by MCP clients
MaxPollers  == 2        \* concurrent GET /request connections
TickSeconds == 8        \* seconds that pass in one step of the clock
MaxProxyPosts == 1      \* invocations pushed for clients of /proxy other than the forwarder

\* ------------------------------------------------------- program constants
LONG_POLL_DURATION == 15

Instances   == {"P", "S"}
Dispatchers == 1 .. MaxDispatch
Pollers     == 1 .. MaxPollers
None        == [none |-> TRUE]      \* Option::None
NilUuid     == 0                    \* 00000000-0000-0000-0000-000000000000

\* Result<String>: texts and messages are tuples, e.g. <<"out", 1>>
Ok(text)    == [ok |-> TRUE,  val |-> text]
Err(msg)    == [ok |-> FALSE, val |-> msg]

VARIABLES
    process_queue,  \* AppState.process_queue of each instance
    output_map,     \* AppState.output_map of each instance: id -> inbox sender
    waiter,         \* AppState.waiter of each instance: has an unseen version
    next_uuid,      \* the next value Uuid::new_v4() returns
    inbox,          \* the mpsc channel of each dispatcher / proxy request
    tool,           \* generic_tool_run futures
    poll,           \* request_handler futures
    received,       \* invocations the plugin got in 200 responses
    post,           \* the plugin's POST /response: in flight, or answered
    dud,            \* dud_proxy_loop of "S"
    proxy,          \* proxy_handler future of "P"
    enq_log,        \* history: ids in the order they were pushed, per instance
    pop_log,        \* history: ids in the order they were popped, per instance
    handed,         \* history: id -> number of 200 responses of /request carrying it
    accepted,       \* history: id -> response string of the accepted /response
    args,           \* the command line of each process (Args)
    run,            \* main / run_server of each process: position and result
    close_signal,   \* CloseSignal of each process: it still holds Some(close_tx)
    close_rx,       \* the oneshot receiver of each process
    server_handle,  \* the background task of each process and its result
    signal_log,     \* history: callers of signal_shutdown, with what each did
    lock,           \* the tokio Mutex around each AppState: the task that holds its guard
    rival           \* a second proxy_handler future of "P", running beside the first

state_vars  == <<process_queue, output_map, waiter, next_uuid, inbox>>
task_vars   == <<tool, poll, dud, proxy>>
plugin_vars == <<received, post>>
hist_vars   == <<enq_log, pop_log, handed, accepted>>
life_vars   == <<args, run, close_signal, close_rx, server_handle, signal_log>>
vars        == <<state_vars, task_vars, plugin_vars, hist_vars, life_vars, lock, rival>>

\* Inbox channels: one per generic_tool_run call, one per proxy request.
ToolChan(d) == <<"tool", d>>
ProxyChan   == <<"proxy", 0>>
RivalChan   == <<"proxy", 1>>
Chans       == {ToolChan(d) : d \in Dispatchers} \cup {ProxyChan, RivalChan}
NoChan      == <<"none", 0>>          \* no sender held

\* Tasks that take the lock of an AppState, and the value of a free lock.
ToolTask(d)   == <<"generic_tool_run", d>>
PollTask(p)   == <<"request_handler", p>>
ResponseTask  == <<"response_handler", 0>>
ProxyTask     == <<"proxy_handler", 0>>
RivalTask     == <<"proxy_handler", 1>>
ForwarderTask == <<"dud_proxy_loop", 0>>
Tasks         == {ToolTask(d) : d \in Dispatchers} \cup {PollTask(p) : p \in Pollers}
                     \cup {ResponseTask, ProxyTask, ForwarderTask}
Unlocked      == <<"unlocked", 0>>

\* state.lock().await of task t is complete, or completes at once: a section
\* entered with the lock free stands for the two steps taken together.
MutexLock(i, t) == lock[i] \in {Unlocked, t}

\* Faulty variant: the guard outlives its block and is held across the next await
MutexGuardKept(i, t) == lock' = [lock EXCEPT ![i] = t]

\* The MutexGuard goes out of scope at the end of its block or statement.
MutexGuardDrop(i, t) == lock' = [lock EXCEPT ![i] = Unlocked]

\* ------------------------------------------------------ container helpers
\* Faulty variant: push_front in place of push_back
PushFront(q, x) == <<x>> \o q

\* VecDeque::push_back
PushBack(q, x) == Append(q, x)

\* Faulty variant: front() in place of pop_front(): the entry stays in the queue
PeekFront(q) == q

\* VecDeque::pop_front: the queue that is left (the popped value is Head)
PopFront(q) == Tail(q)

\* Faulty variant: the value is dropped, nothing is stored under the key
MapInsertNothing(m, k, v) == m

\* HashMap::insert: a value already stored under the key is replaced
MapInsert(m, k, v) == [x \in (DOMAIN m) \cup {k} |-> IF x = k THEN v ELSE m[x]]

\* Faulty variant: the entry is looked up but left in the map
MapKeep(m, k) == m

\* HashMap::remove / remove_entry: total, a no-op when the key is absent
MapRemove(m, k) == [x \in (DOMAIN m) \ {k} |-> m[x]]

\* Faulty variant: the value is dropped instead of being sent
ChanDrop(ch, tx, v) == ch

\* mpsc::UnboundedSender::send
ChanSend(ch, tx, v) == [ch EXCEPT ![tx] = Append(@, v)]

\* ToolArguments::new(args): stamps a fresh id on the payload
ToolArgumentsNew(values) == [args |-> values, id |-> next_uuid]

NoPost    == [response |-> <<>>, id |-> NilUuid, status |-> "none"]
IdleTool  == [pc |-> "idle", home |-> "P", id |-> NilUuid, result |-> None]
IdlePoll  == [pc |-> "idle", changed |-> FALSE, body |-> None, elapsed |-> 0]
IdleDud   == [pc |-> "off", changed |-> FALSE, entry |-> None, res |-> None, tx |-> NoChan]
IdleProxy == [pc |-> "idle", peer |-> "none", command |-> None, response |-> None]

\* ------------------------------------------------------ process lifecycle
\* Args as clap parses them: the subcommand word ("" when none was given)
\* and the two legacy flags.
Subcommands == {"", "server", "stdio", "studio-install"}
ArgLines    == [sub : Subcommands, studio_install : BOOLEAN, stdio : BOOLEAN]
NoArgs      == [sub |-> "", studio_install |-> FALSE, stdio |-> FALSE]
ServerArgs  == [sub |-> "server", studio_install |-> FALSE, stdio |-> FALSE]

\* What TcpListener::bind can answer; AddrNotAvailable stands for every
\* io::ErrorKind other than AddrInUse.
BindResults == {"Listener", "AddrInUse", "AddrNotAvailable"}

\* No result yet.
Unset      == [ok |-> FALSE, val |-> "unset"]

NoTask     == [task |-> "none", pc |-> "none", result |-> Unset]
NotStarted == [pc |-> "absent", command |-> "None", bound |-> "none", result |-> Unset]

\* A process that run_server has brought up after the bind answered os: the
\* background task runs and line 126 waits for the MCP transport to close.
RunWaiting(os) == [pc |-> "waiting", command |-> "Server", bound |-> os, result |-> Unset]
HttpTask   == [task |-> "http", pc |-> "serving", result |-> Unset]
DudTask    == [task |-> "dud", pc |-> "running", result |-> Unset]

\* The process has not ended: its tasks are scheduled.
Alive(i) == run[i].pc \notin {"absent", "exit", "install", "studio_install"}

\* The MCP transport of process i is open (service.waiting() is pending).
TransportOpen(i) == run[i].pc = "waiting"

\* The primary's listener takes new requests.
Accepting == Alive("P") /\ server_handle["P"] = HttpTask

\* The forwarder task of the secondary is scheduled.
Forwarding == Alive("S") /\ server_handle["S"] = DudTask

\* exit.is_empty() of line 2062
ExitIsEmpty == close_rx["S"] = "empty"

InitCommon ==
    /\ process_queue = [i \in Instances |-> <<>>]
    /\ output_map = [i \in Instances |-> <<>>]
    /\ waiter = [i \in Instances |-> FALSE]
    /\ next_uuid = 1
    /\ inbox = [c \in Chans |-> <<>>]
    /\ tool = [d \in Dispatchers |-> IdleTool]
    /\ poll = [p \in Pollers |-> IdlePoll]
    /\ received = {}
    /\ post = NoPost
    /\ proxy = IdleProxy
    /\ enq_log = [i \in Instances |-> <<>>]
    /\ pop_log = [i \in Instances |-> <<>>]
    /\ handed = <<>>
    /\ accepted = <<>>
    /\ lock = [i \in Instances |-> Unlocked]
    /\ rival = IdleProxy

\* A primary that is up, with the port bound and the MCP transport open.
PrimaryUp ==
    /\ args = [i \in Instances |-> ServerArgs]
    /\ close_signal = [i \in Instances |-> TRUE]
    /\ close_rx = [i \in Instances |-> "empty"]
    /\ signal_log = [i \in Instances |-> <<>>]

\* A primary on its own: no second process was started.
Init ==
    /\ InitCommon /\ dud = IdleDud /\ PrimaryUp
    /\ run = [i \in Instances |-> IF i = "P" THEN RunWaiting("Listener") ELSE NotStarted]
    /\ server_handle = [i \in Instances |-> IF i = "P" THEN HttpTask ELSE NoTask]

\* A primary, and a second process that found the port in use and spawned
\* dud_proxy_loop (main.rs, lines 103-111).
InitBridge ==
    /\ InitCommon /\ dud = [IdleDud EXCEPT !.pc = "start"] /\ PrimaryUp
    /\ run = [i \in Instances |->
                  IF i = "P" THEN RunWaiting("Listener") ELSE RunWaiting("AddrInUse")]
    /\ server_handle = [i \in Instances |-> IF i = "P" THEN HttpTask ELSE DudTask]

\* ------------------------------------------------------- watch channel
\* watch::Sender::send(()): every live receiver of instance i sees a new
\* version: AppState.waiter, the clones parked in request_handler (primary)
\* and the clone dud_proxy_loop holds (secondary).
Pulse(i) ==
    /\ waiter' = [waiter EXCEPT ![i] = TRUE]
    /\ poll' = IF i = "P"
                 THEN [p \in Pollers |->
                        IF poll[p].pc = "parked"
                          THEN [poll[p] EXCEPT !.changed = TRUE] ELSE poll[p]]
                 ELSE poll
    /\ dud' = IF i = "S" /\ dud.pc \notin {"off", "start"}
                THEN [dud EXCEPT !.changed = TRUE] ELSE dud

\* ------------------------------------------------------ generic_tool_run
\* lines 1976-1984: stamp the id, create the inbox, and under the lock push
\* the command and insert the sender.
generic_tool_run_enqueue(i, d) ==
    /\ TransportOpen(i)
    /\ tool[d].pc = "idle"
    /\ MutexLock(i, ToolTask(d)) /\ \A j \in Instances \ {i} : lock[j] # ToolTask(d)
    /\ \A e \in Dispatchers : e < d => tool[e].pc # "idle"   \* d is the d-th call
    /\ LET command == ToolArgumentsNew(d) IN
       /\ process_queue' = [process_queue EXCEPT ![i] = PushBack(@, command)]
       /\ output_map' = [output_map EXCEPT ![i] = MapInsert(@, command.id, ToolChan(d))]
       /\ enq_log' = [enq_log EXCEPT ![i] = Append(@, command.id)]
       /\ tool' = [tool EXCEPT ![d] = [pc |-> "pulse", home |-> i,
                                       id |-> command.id, result |-> None]]
    /\ next_uuid' = next_uuid + 1
    /\ UNCHANGED <<waiter, inbox, poll, dud, proxy, plugin_vars, pop_log, handed, accepted>>
    /\ UNCHANGED life_vars
    /\ MutexGuardDrop(i, ToolTask(d))
    /\ UNCHANGED rival

\* Receivers of the watch channel of instance i that are alive, apart from
\* AppState.waiter: the clones of parked /request handlers (line 2012, dropped
\* at the end of each turn of the loop) and the clone of the forwarder (2061).
WatchClones(i) ==
    Cardinality({p \in Pollers : i = "P" /\ poll[p].pc = "parked"})
        + (IF i = "S" /\ dud.pc \in {"top", "wait", "post", "parse"} THEN 1 ELSE 0)

\* Faulty variant: the state keeps no receiver of its own
WatchReceiversClones(i) == WatchClones(i)

\* Receivers alive: AppState.waiter (lines 41 and 48-54) lives as long as
\* the state, which the server and the routes hold for the process lifetime.
WatchReceivers(i) == WatchClones(i) + 1

\* lines 1985-1987: the lock is released, then trigger.send(()), which fails
\* only when no receiver is alive: the error "Unable to trigger send" is
\* returned with `?`, and the queue and the map stay as they are.
generic_tool_run_trigger(d) ==
    /\ Alive(tool[d].home)
    /\ tool[d].pc = "pulse"
    /\ IF WatchReceivers(tool[d].home) = 0
         THEN /\ tool' = [tool EXCEPT ![d].pc = "failed",
                                      ![d].result = [mcp_error |-> <<"Unable to trigger send">>]]
              /\ UNCHANGED <<waiter, poll, dud>>
         ELSE /\ Pulse(tool[d].home)
              /\ tool' = [tool EXCEPT ![d].pc = "recv"]
    /\ UNCHANGED <<process_queue, output_map, next_uuid, inbox, proxy, plugin_vars, hist_vars>>
    /\ UNCHANGED life_vars
    /\ UNCHANGED lock
    /\ UNCHANGED rival

\* lines 1988-1991: rx.recv().await
generic_tool_run_recv(d) ==
    /\ Alive(tool[d].home)
    /\ tool[d].pc = "recv"
    /\ inbox[ToolChan(d)] # <<>>
    /\ tool' = [tool EXCEPT ![d].pc = "remove", ![d].result = Head(inbox[ToolChan(d)])]
    /\ inbox' = [inbox EXCEPT ![ToolChan(d)] = Tail(@)]
    /\ UNCHANGED <<process_queue, output_map, waiter, next_uuid, poll, dud, proxy,
                   plugin_vars, hist_vars>>
    /\ UNCHANGED life_vars
    /\ UNCHANGED lock
    /\ UNCHANGED rival

\* Faulty variant: every inbox value is reported as a success
CallToolResultSuccess(result) == [is_error |-> FALSE, text |-> result.val]

\* CallToolResult::success / CallToolResult::error, lines 1997-2000
CallToolResult(result) == [is_error |-> ~result.ok, text |-> result.val]

\* lines 1992-2000: under the lock remove_entry(&id), then build the result
generic_tool_run_remove(d) ==
    /\ Alive(tool[d].home)
    /\ tool[d].pc = "remove"
    /\ MutexLock(tool[d].home, ToolTask(d))
    /\ output_map' = [output_map EXCEPT ![tool[d].home] = MapRemove(@, tool[d].id)]
    /\ tool' = [tool EXCEPT ![d].pc = "done", ![d].result = CallToolResult(@)]
    /\ UNCHANGED <<process_queue, waiter, next_uuid, inbox, poll, dud, proxy,
                   plugin_vars, hist_vars>>
    /\ UNCHANGED life_vars
    /\ MutexGuardDrop(tool[d].home, ToolTask(d))
    /\ UNCHANGED rival

\* The call is cancelled while it waits for its reply (the MCP client
\* cancels the request, or the transport is torn down): the future is
\* dropped at line 1990 and rx with it; the entry of output_map stays.
generic_tool_run_cancel(d) ==
    /\ Alive(tool[d].home)
    /\ tool[d].pc = "recv"
    /\ tool' = [tool EXCEPT ![d].pc = "cancelled"]
    /\ UNCHANGED <<state_vars, poll, dud, proxy, plugin_vars, hist_vars, life_vars>>
    /\ UNCHANGED lock
    /\ UNCHANGED rival

\* The receiving half of the inbox was dropped.
RxDropped(tx) ==
    \E d \in Dispatchers : tx = ToolChan(d) /\ tool[d].pc \in {"cancelled", "failed"}

\* A sender of the inbox of call d is alive: in the map of its instance, or
\* taken out of it by the forwarder (line 2071) and not used yet.
TxAlive(d) ==
    \/ \E k \in DOMAIN output_map[tool[d].home] : output_map[tool[d].home][k] = ToolChan(d)
    \/ dud.tx = ToolChan(d)

\* lines 1988-1991: rx.recv() yields None once the inbox is empty and every
\* sender is gone; `?` returns the internal error "Couldn't receive
\* response" and lines 1992-1995 are not reached.
generic_tool_run_closed(d) ==
    /\ Alive(tool[d].home)
    /\ tool[d].pc = "recv"
    /\ inbox[ToolChan(d)] = <<>>
    /\ ~TxAlive(d)
    /\ tool' = [tool EXCEPT ![d].pc = "failed",
                            ![d].result = [mcp_error |-> <<"Couldn't receive response">>]]
    /\ UNCHANGED <<state_vars, poll, dud, proxy, plugin_vars, hist_vars, life_vars, lock>>
    /\ UNCHANGED rival

\* ------------------------------------------------------- request_handler
\* The plugin issues a GET /request on connection p (its previous response,
\* if any, has been read): tokio::time::timeout(LONG_POLL_DURATION, ..) is
\* armed and the loop of lines 2006-2015 starts.
request_handler_start(p) ==
    /\ Accepting
    /\ poll[p].pc \in {"idle", "ret200", "ret423"}
    /\ poll' = [poll EXCEPT ![p] = [pc |-> "lock", changed |-> FALSE,
                                    body |-> None, elapsed |-> 0]]
    /\ UNCHANGED <<state_vars, dud, proxy, tool, plugin_vars, hist_vars>>
    /\ UNCHANGED life_vars
    /\ UNCHANGED lock
    /\ UNCHANGED rival

\* lines 2008-2012 and 2019: under the lock, pop_front; Some(task) is
\* returned as the body of a 200 response, which the plugin reads;
\* otherwise the handler leaves with a clone of AppState.waiter, which
\* carries the version AppState.waiter last saw.
request_handler_check(p) ==
    /\ Alive("P")
    /\ poll[p].pc = "lock"
    /\ MutexLock("P", PollTask(p))
    /\ IF process_queue["P"] # <<>>
         THEN LET task == Head(process_queue["P"]) IN
              /\ process_queue' = [process_queue EXCEPT !["P"] = PopFront(@)]
              /\ pop_log' = [pop_log EXCEPT !["P"] = Append(@, task.id)]
              /\ handed' = MapInsert(handed, task.id,
                                      IF task.id \in DOMAIN handed
                                        THEN handed[task.id] + 1 ELSE 1)
              /\ received' = received \cup {task}
              /\ poll' = [poll EXCEPT ![p].pc = "ret200", ![p].body = task]
         ELSE /\ poll' = [poll EXCEPT ![p].pc = "parked", ![p].changed = waiter["P"]]
              /\ UNCHANGED <<process_queue, pop_log, handed, received>>
    /\ UNCHANGED <<output_map, waiter, next_uuid, inbox, tool, dud, proxy,
                   post, enq_log, accepted>>
    /\ UNCHANGED life_vars
    /\ MutexGuardDrop("P", PollTask(p))
    /\ UNCHANGED rival

\* line 2014: waiter.changed().await is ready once the clone's version
\* differs from the channel's; the loop then goes back for the lock.
request_handler_changed(p) ==
    /\ Alive("P")
    /\ poll[p].pc = "parked"
    /\ poll[p].changed
    /\ poll' = [poll EXCEPT ![p].pc = "lock", ![p].changed = FALSE]
    /\ UNCHANGED <<state_vars, dud, proxy, tool, plugin_vars, hist_vars>>
    /\ UNCHANGED life_vars
    /\ UNCHANGED lock
    /\ UNCHANGED rival

\* Faulty variant: the duration is taken in milliseconds
DeadlinePassedMillis(p) == poll[p].elapsed * 1000 >= LONG_POLL_DURATION

\* The deadline of the timeout has passed (line 2005).
DeadlinePassed(p) == poll[p].elapsed >= LONG_POLL_DURATION

\* Faulty variant: the deadline is looked at after the pop, and what was popped is
\* dropped with the inner future
request_handler_timeout_late(p) ==
    /\ Alive("P")
    /\ poll[p].pc \in {"lock", "parked"}
    /\ lock["P"] # PollTask(p)
    /\ DeadlinePassed(p)
    /\ poll' = [poll EXCEPT ![p].pc = "ret423", ![p].changed = FALSE]
    /\ IF poll[p].pc = "lock" /\ process_queue["P"] # <<>>
         THEN /\ process_queue' = [process_queue EXCEPT !["P"] = PopFront(@)]
              /\ pop_log' = [pop_log EXCEPT !["P"] = Append(@, Head(process_queue["P"]).id)]
         ELSE UNCHANGED <<process_queue, pop_log>>
    /\ UNCHANGED <<output_map, waiter, next_uuid, inbox, dud, proxy, tool, plugin_vars,
                   enq_log, handed, accepted, life_vars, lock>>
    /\ UNCHANGED rival

\* lines 2018-2021, the `_` arm: the timeout fires while the inner future is
\* pending (waiting for the lock or for the notifier): 423 with an empty body.
request_handler_timeout(p) ==
    /\ Alive("P")
    /\ poll[p].pc \in {"lock", "parked"}
    /\ lock["P"] # PollTask(p)       \* no await between lock() and the drop of the guard
    /\ DeadlinePassed(p)
    /\ poll' = [poll EXCEPT ![p].pc = "ret423", ![p].changed = FALSE]
    /\ UNCHANGED <<state_vars, dud, proxy, tool, plugin_vars, hist_vars>>
    /\ UNCHANGED life_vars
    /\ UNCHANGED lock
    /\ UNCHANGED rival

\* Wall-clock time passes for every pending /request.  A timer that is due
\* fires before more time passes.
Active(p) == poll[p].pc \in {"lock", "parked"}

Tick ==
    /\ Alive("P")
    /\ \E p \in Pollers : Active(p)
    /\ \A p \in Pollers : Active(p) => ~DeadlinePassed(p)
    /\ poll' = [p \in Pollers |->
                  IF Active(p) THEN [poll[p] EXCEPT !.elapsed = @ + TickSeconds]
                               ELSE poll[p]]
    /\ UNCHANGED <<state_vars, dud, proxy, tool, plugin_vars, hist_vars>>
    /\ UNCHANGED life_vars
    /\ UNCHANGED lock
    /\ UNCHANGED rival

\* ------------------------------------------------------------ the plugin
\* What the plugin answers to an invocation: text computed from its payload.
Execute(inv) == <<"out", inv.args>>

PostIdle == post.status # "sent"

\* POST /response {response, id}: the plugin answers an invocation it got.
plugin_answer(inv) ==
    /\ Accepting
    /\ PostIdle
    /\ inv \in received
    /\ post' = [response |-> Execute(inv), id |-> inv.id, status |-> "sent"]
    /\ received' = received \ {inv}
    /\ UNCHANGED <<state_vars, task_vars, hist_vars>>
    /\ UNCHANGED life_vars
    /\ UNCHANGED lock
    /\ UNCHANGED rival

\* Any other POST /response a client can send: the nil uuid of scenario S3
\* (no dispatcher ever waits on it), or any id minted so far, whether it is
\* still waited on, not yet polled, or already answered.
PostableIds == {NilUuid} \cup {id \in 1 .. MaxDispatch : id < next_uuid}

plugin_post_any(id) ==
    /\ Accepting
    /\ PostIdle
    /\ id \in PostableIds
    /\ post' = [response |-> <<"again", id>>, id |-> id, status |-> "sent"]
    /\ UNCHANGED <<state_vars, task_vars, received, hist_vars>>
    /\ UNCHANGED life_vars
    /\ UNCHANGED lock
    /\ UNCHANGED rival

\* Faulty variant: the sender is searched by draining the map, so an unknown id
\* empties it
response_handler_drain ==
    /\ Alive("P")
    /\ post.status = "sent"
    /\ MutexLock("P", ResponseTask)
    /\ IF post.id \in DOMAIN output_map["P"]
         THEN LET tx == output_map["P"][post.id] IN
              /\ output_map' = [output_map EXCEPT !["P"] = MapRemove(@, post.id)]
              /\ inbox' = ChanSend(inbox, tx, Ok(post.response))
              /\ accepted' = MapInsert(accepted, post.id, post.response)
              /\ post' = [NoPost EXCEPT !.status = "ok"]
         ELSE /\ post' = [NoPost EXCEPT !.status = "error"]
              /\ output_map' = [output_map EXCEPT !["P"] = <<>>]
              /\ UNCHANGED <<inbox, accepted>>
    /\ UNCHANGED <<process_queue, waiter, next_uuid, task_vars, received,
                   enq_log, pop_log, handed>>
    /\ UNCHANGED life_vars
    /\ MutexGuardDrop("P", ResponseTask)
    /\ UNCHANGED rival

\* Faulty variant: replies are accepted in the order the inboxes were registered:
\* a reply for any id but the oldest one is refused
response_handler_in_order ==
    /\ Alive("P")
    /\ post.status = "sent"
    /\ MutexLock("P", ResponseTask)
    /\ IF /\ post.id \in DOMAIN output_map["P"]
          /\ \A k \in DOMAIN output_map["P"] : post.id <= k
         THEN LET tx == output_map["P"][post.id] IN
              /\ output_map' = [output_map EXCEPT !["P"] = MapRemove(@, post.id)]
              /\ inbox' = ChanSend(inbox, tx, Ok(post.response))
              /\ accepted' = MapInsert(accepted, post.id, post.response)
              /\ post' = [NoPost EXCEPT !.status = "ok"]
         ELSE /\ post' = [NoPost EXCEPT !.status = "error"]
              /\ UNCHANGED <<output_map, inbox, accepted>>
    /\ UNCHANGED <<process_queue, waiter, next_uuid, task_vars, received,
                   enq_log, pop_log, handed>>
    /\ UNCHANGED life_vars
    /\ MutexGuardDrop("P", ResponseTask)
    /\ UNCHANGED rival

\* Faulty variant: the reply goes to whatever sender the map yields first, not to
\* the one registered under the id of the payload
response_handler_first ==
    /\ Alive("P")
    /\ post.status = "sent"
    /\ MutexLock("P", ResponseTask)
    /\ IF post.id \in DOMAIN output_map["P"]
         THEN LET k == CHOOSE x \in DOMAIN output_map["P"] :
                           \A y \in DOMAIN output_map["P"] : x <= y
                  tx == output_map["P"][k] IN
              /\ output_map' = [output_map EXCEPT !["P"] = MapRemove(@, k)]
              /\ inbox' = ChanSend(inbox, tx, Ok(post.response))
              /\ accepted' = MapInsert(accepted, post.id, post.response)
              /\ post' = [NoPost EXCEPT !.status = "ok"]
         ELSE /\ post' = [NoPost EXCEPT !.status = "error"]
              /\ UNCHANGED <<output_map, inbox, accepted>>
    /\ UNCHANGED <<process_queue, waiter, next_uuid, task_vars, received,
                   enq_log, pop_log, handed>>
    /\ UNCHANGED life_vars
    /\ MutexGuardDrop("P", ResponseTask)
    /\ UNCHANGED rival

\* Faulty variant: the sender is looked up with get() and stays in the map
response_handler_resend ==
    /\ Alive("P")
    /\ post.status = "sent"
    /\ MutexLock("P", ResponseTask)
    /\ IF post.id \in DOMAIN output_map["P"]
         THEN LET tx == output_map["P"][post.id] IN
              /\ inbox' = ChanSend(inbox, tx, Ok(post.response))
              /\ accepted' = MapInsert(accepted, post.id, post.response)
              /\ post' = [NoPost EXCEPT !.status = "ok"]
              /\ UNCHANGED output_map
         ELSE /\ post' = [NoPost EXCEPT !.status = "error"]
              /\ UNCHANGED <<output_map, inbox, accepted>>
    /\ UNCHANGED <<process_queue, waiter, next_uuid, task_vars, received,
                   enq_log, pop_log, handed>>
    /\ UNCHANGED life_vars
    /\ MutexGuardDrop("P", ResponseTask)
    /\ UNCHANGED rival

\* ------------------------------------------------------ response_handler
\* lines 2029-2034: the guard is bound to `state` and lives to the end of
\* the function.  Under the lock, remove the sender; absent is the "Unknown
\* ID" error; otherwise send Ok(response) into the inbox, which fails when
\* the receiver is gone; then the function returns and the guard is dropped.
response_handler ==
    /\ Alive("P")
    /\ post.status = "sent"
    /\ MutexLock("P", ResponseTask)
    /\ IF post.id \in DOMAIN output_map["P"]
         THEN LET tx == output_map["P"][post.id] IN
              /\ output_map' = [output_map EXCEPT !["P"] = MapRemove(@, post.id)]
              /\ IF RxDropped(tx)
                   THEN /\ post' = [NoPost EXCEPT !.status = "error"]
                        /\ UNCHANGED <<inbox, accepted>>
                   ELSE /\ inbox' = ChanSend(inbox, tx, Ok(post.response))
                        /\ accepted' = MapInsert(accepted, post.id, post.response)
                        /\ post' = [NoPost EXCEPT !.status = "ok"]
         ELSE /\ post' = [NoPost EXCEPT !.status = "error"]
              /\ UNCHANGED <<output_map, inbox, accepted>>
    /\ UNCHANGED <<process_queue, waiter, next_uuid, task_vars, received,
                   enq_log, pop_log, handed>>
    /\ UNCHANGED life_vars
    /\ MutexGuardDrop("P", ResponseTask)
    /\ UNCHANGED rival

\* --------------------------------------------------------- proxy_handler
\* Bodies a client other than dud_proxy_loop can POST to /proxy: any
\* ToolArguments, with a null id or with an id that is in use.
ProxyBodies == {[args |-> 0, id |-> id] : id \in PostableIds}

\* A client other than the forwarder sends POST /proxy.
proxy_post_any(command) ==
    /\ Accepting
    /\ proxy.pc = "idle"
    /\ command \in ProxyBodies
    /\ Len(enq_log["P"]) < MaxDispatch + MaxProxyPosts
    /\ proxy' = [pc |-> "posted", peer |-> "any", command |-> command, response |-> None]
    /\ UNCHANGED <<state_vars, tool, poll, dud, plugin_vars, hist_vars, life_vars, lock>>
    /\ UNCHANGED rival

\* That client reads the response of its POST /proxy.
proxy_client_read ==
    /\ proxy.pc = "replied"
    /\ proxy.peer = "any"
    /\ proxy' = IdleProxy
    /\ UNCHANGED <<state_vars, tool, poll, dud, plugin_vars, hist_vars, life_vars, lock>>
    /\ UNCHANGED rival

\* The POST /proxy that the handler has not started on: the one of another
\* client, or the one dud_proxy_loop sent at line 2065.
ProxyPosted ==
    IF proxy.pc = "posted" THEN {proxy.command}
    ELSE IF proxy.pc = "idle" /\ dud.pc = "post" THEN {dud.entry}
    ELSE {}

\* Faulty variant: the id of the body is not looked at
IdMissingNever(command) == FALSE

\* line 2041: command.id is None
IdMissing(command) == command.id = NilUuid

\* lines 2041-2048: a POST /proxy arrives; a body without id is answered
\* with an error before the state is touched; otherwise the id is taken
\* from the body, and under the lock the command is pushed and the sender
\* inserted.  The notifier is not pulsed.
proxy_handler_enqueue ==
    /\ Accepting
    /\ \E command \in ProxyPosted :
         LET peer == IF proxy.pc = "posted" THEN "any" ELSE "dud" IN
         IF IdMissing(command)
           THEN /\ proxy' = [pc |-> "replied", peer |-> peer, command |-> command,
                             response |-> [error |-> <<"Got proxy command with no id">>]]
                /\ UNCHANGED <<process_queue, output_map, enq_log, lock>>
           ELSE /\ MutexLock("P", ProxyTask)
                /\ process_queue' = [process_queue EXCEPT !["P"] = PushBack(@, command)]
                /\ output_map' = [output_map EXCEPT
                                     !["P"] = MapInsert(@, command.id, ProxyChan)]
                /\ enq_log' = [enq_log EXCEPT !["P"] = Append(@, command.id)]
                /\ proxy' = [pc |-> "recv", peer |-> peer, command |-> command,
                             response |-> None]
                /\ MutexGuardDrop("P", ProxyTask)
    /\ UNCHANGED <<waiter, next_uuid, inbox, tool, poll, dud, plugin_vars,
                   pop_log, handed, accepted>>
    /\ UNCHANGED life_vars
    /\ UNCHANGED rival

\* line 2049: rx.recv().await, then `??`: an Err taken from the inbox leaves
\* the handler at once, as the error body of the HTTP response.
proxy_handler_recv ==
    /\ Alive("P")
    /\ proxy.pc = "recv"
    /\ inbox[ProxyChan] # <<>>
    /\ LET response == Head(inbox[ProxyChan]) IN
       proxy' = IF response.ok
                  THEN [proxy EXCEPT !.pc = "remove", !.response = response]
                  ELSE [proxy EXCEPT !.pc = "replied",
                                     !.response = [error |-> response.val]]
    /\ inbox' = [inbox EXCEPT ![ProxyChan] = Tail(@)]
    /\ UNCHANGED <<process_queue, output_map, waiter, next_uuid, tool, poll, dud,
                   plugin_vars, hist_vars>>
    /\ UNCHANGED life_vars
    /\ UNCHANGED lock
    /\ UNCHANGED rival

\* Faulty variant: the reply is stamped with a newly minted id
RunCommandResponseMinted(response, id) == [response |-> response, id |-> next_uuid]

\* RunCommandResponse { response, id }, lines 32-36 and 2055
RunCommandResponse(response, id) == [response |-> response, id |-> id]

\* A sender of inbox c is alive: senders of the inboxes of /proxy requests
\* live in the map of the primary only (line 2047).
SenderAlive(c) ==
    \E k \in DOMAIN output_map["P"] : output_map["P"][k] = c

\* Faulty variant: a closed inbox is answered like a reply with an empty string
CouldntReceiveEmpty(command) == RunCommandResponse("", command.id)

\* line 2049: ok_or_eyre("Couldn't receive response") on the None of a
\* closed inbox
CouldntReceive(command) == [error |-> <<"Couldn't receive response">>]

\* line 2049: rx.recv() yields None once the inbox is empty and every sender
\* is gone; the first `?` leaves the handler with the error as the body of
\* the HTTP response, and lines 2050-2053 are not reached.
proxy_handler_closed ==
    /\ Alive("P")
    /\ proxy.pc = "recv"
    /\ inbox[ProxyChan] = <<>>
    /\ ~SenderAlive(ProxyChan)
    /\ proxy' = [proxy EXCEPT !.pc = "replied", !.response = CouldntReceive(proxy.command)]
    /\ UNCHANGED <<state_vars, tool, poll, dud, plugin_vars, hist_vars, life_vars, lock>>
    /\ UNCHANGED rival

\* A second client sends POST /proxy while the first request may be in
\* flight.
rival_post_any(command) ==
    /\ Accepting
    /\ rival.pc = "idle"
    /\ command \in ProxyBodies
    /\ Len(enq_log["P"]) < MaxDispatch + MaxProxyPosts
    /\ rival' = [pc |-> "posted", peer |-> "any", command |-> command, response |-> None]
    /\ UNCHANGED <<state_vars, task_vars, plugin_vars, hist_vars, life_vars, lock>>

\* That client reads the response of its POST /proxy.
rival_client_read ==
    /\ rival.pc = "replied"
    /\ rival' = IdleProxy
    /\ UNCHANGED <<state_vars, task_vars, plugin_vars, hist_vars, life_vars, lock>>

\* lines 2041-2048, for the second request
rival_handler_enqueue ==
    /\ Accepting
    /\ rival.pc = "posted"
    /\ IF IdMissing(rival.command)
         THEN /\ rival' = [rival EXCEPT !.pc = "replied",
                             !.response = [error |-> <<"Got proxy command with no id">>]]
              /\ UNCHANGED <<process_queue, output_map, enq_log, lock>>
         ELSE /\ MutexLock("P", RivalTask)
              /\ process_queue' = [process_queue EXCEPT !["P"] = PushBack(@, rival.command)]
              /\ output_map' = [output_map EXCEPT
                                   !["P"] = MapInsert(@, rival.command.id, RivalChan)]
              /\ enq_log' = [enq_log EXCEPT !["P"] = Append(@, rival.command.id)]
              /\ rival' = [rival EXCEPT !.pc = "recv"]
              /\ MutexGuardDrop("P", RivalTask)
    /\ UNCHANGED <<waiter, next_uuid, inbox, task_vars, plugin_vars,
                   pop_log, handed, accepted, life_vars>>

\* line 2049, for the second request: a value is taken from the inbox
rival_handler_recv ==
    /\ Alive("P")
    /\ rival.pc = "recv"
    /\ inbox[RivalChan] # <<>>
    /\ LET response == Head(inbox[RivalChan]) IN
       rival' = IF response.ok
                  THEN [rival EXCEPT !.pc = "remove", !.response = response]
                  ELSE [rival EXCEPT !.pc = "replied",
                                     !.response = [error |-> response.val]]
    /\ inbox' = [inbox EXCEPT ![RivalChan] = Tail(@)]
    /\ UNCHANGED <<process_queue, output_map, waiter, next_uuid, task_vars,
                   plugin_vars, hist_vars, life_vars, lock>>

\* line 2049, for the second request: the inbox is closed
rival_handler_closed ==
    /\ Alive("P")
    /\ rival.pc = "recv"
    /\ inbox[RivalChan] = <<>>
    /\ ~SenderAlive(RivalChan)
    /\ rival' = [rival EXCEPT !.pc = "replied", !.response = CouldntReceive(rival.command)]
    /\ UNCHANGED <<state_vars, task_vars, plugin_vars, hist_vars, life_vars, lock>>

\* lines 2050-2055, for the second request
rival_handler_remove ==
    /\ Alive("P")
    /\ rival.pc = "remove"
    /\ MutexLock("P", RivalTask)
    /\ output_map' = [output_map EXCEPT !["P"] = MapRemove(@, rival.command.id)]
    /\ rival' = [rival EXCEPT !.pc = "replied",
                   !.response = RunCommandResponse(rival.response.val,
                                                   rival.command.id)]
    /\ UNCHANGED <<process_queue, waiter, next_uuid, inbox, task_vars,
                   plugin_vars, hist_vars, life_vars>>
    /\ MutexGuardDrop("P", RivalTask)

\* lines 2050-2055: under the lock remove_entry(&id); the HTTP response is
\* Json(RunCommandResponse {response, id}).
proxy_handler_remove ==
    /\ Alive("P")
    /\ proxy.pc = "remove"
    /\ MutexLock("P", ProxyTask)
    /\ output_map' = [output_map EXCEPT !["P"] = MapRemove(@, proxy.command.id)]
    /\ proxy' = [proxy EXCEPT !.pc = "replied",
                   !.response = RunCommandResponse(proxy.response.val,
                                                   proxy.command.id)]
    /\ UNCHANGED <<process_queue, waiter, next_uuid, inbox, tool, poll, dud,
                   plugin_vars, hist_vars>>
    /\ UNCHANGED life_vars
    /\ MutexGuardDrop("P", ProxyTask)
    /\ UNCHANGED rival

\* The POST /proxy of the forwarder is answered with a body that is not a
\* RunCommandResponse: the port is held by a program that answers /proxy
\* with an error body.
proxy_reply_error ==
    /\ Forwarding
    /\ dud.pc = "post"
    /\ proxy.pc = "idle"
    /\ proxy' = [pc |-> "replied", peer |-> "dud", command |-> dud.entry,
                 response |-> [error |-> <<"not a reply">>]]
    /\ UNCHANGED <<state_vars, tool, poll, dud, plugin_vars, hist_vars>>
    /\ UNCHANGED life_vars
    /\ UNCHANGED lock
    /\ UNCHANGED rival

\* -------------------------------------------------------- dud_proxy_loop
\* line 2061: the loop's receiver is a clone of AppState.waiter, taken once.
dud_proxy_loop_start ==
    /\ Forwarding
    /\ dud.pc = "start"
    /\ MutexLock("S", ForwarderTask)
    /\ dud' = [dud EXCEPT !.pc = "top", !.changed = waiter["S"]]
    /\ UNCHANGED <<state_vars, tool, poll, proxy, plugin_vars, hist_vars>>
    /\ UNCHANGED life_vars
    /\ MutexGuardDrop("S", ForwarderTask)
    /\ UNCHANGED rival

\* Faulty variant: the next entry is popped and posted while the POST of the
\* previous one is still under way
dud_proxy_loop_pop_eager ==
    /\ Forwarding
    /\ dud.pc \in {"top", "post"}
    /\ process_queue["S"] # <<>>
    /\ LET entry == Head(process_queue["S"]) IN
       /\ process_queue' = [process_queue EXCEPT !["S"] = PopFront(@)]
       /\ pop_log' = [pop_log EXCEPT !["S"] = Append(@, entry.id)]
       /\ dud' = [dud EXCEPT !.pc = "post", !.entry = entry]
    /\ UNCHANGED <<output_map, waiter, next_uuid, inbox, tool, poll, proxy,
                   plugin_vars, enq_log, handed, accepted, life_vars, lock>>
    /\ UNCHANGED rival

\* lines 2063-2069 and 2088-2090: pop_front under the lock; Some(entry) is
\* sent to the primary's /proxy, None waits for the notifier.
dud_proxy_loop_pop ==
    /\ Forwarding
    /\ dud.pc = "top"
    /\ ExitIsEmpty \/ lock["S"] = ForwarderTask     \* line 2062 was passed
    /\ MutexLock("S", ForwarderTask)
    /\ IF process_queue["S"] # <<>>
         THEN LET entry == Head(process_queue["S"]) IN
              /\ process_queue' = [process_queue EXCEPT !["S"] = PopFront(@)]
              /\ pop_log' = [pop_log EXCEPT !["S"] = Append(@, entry.id)]
              /\ dud' = [dud EXCEPT !.pc = "post", !.entry = entry]
         ELSE /\ dud' = [dud EXCEPT !.pc = "wait"]
              /\ UNCHANGED <<process_queue, pop_log>>
    /\ UNCHANGED <<output_map, waiter, next_uuid, inbox, tool, poll, proxy,
                   plugin_vars, enq_log, handed, accepted>>
    /\ UNCHANGED life_vars
    /\ MutexGuardDrop("S", ForwarderTask)
    /\ UNCHANGED rival

\* line 2089: waiter.changed().await
dud_proxy_loop_changed ==
    /\ Forwarding
    /\ dud.pc = "wait"
    /\ dud.changed
    /\ dud' = [dud EXCEPT !.pc = "top", !.changed = FALSE]
    /\ UNCHANGED <<state_vars, tool, poll, proxy, plugin_vars, hist_vars>>
    /\ UNCHANGED life_vars
    /\ UNCHANGED lock
    /\ UNCHANGED rival

\* lines 2070-2078: the HTTP response of /proxy arrived (Ok(res)); under the
\* lock the sender is removed from the map, and unwrapped.
dud_proxy_loop_take ==
    /\ Forwarding
    /\ dud.pc = "post"
    /\ proxy.pc = "replied"
    /\ proxy.peer = "dud"
    /\ MutexLock("S", ForwarderTask)
    /\ LET id == dud.entry.id IN
       IF id \in DOMAIN output_map["S"]
         THEN /\ dud' = [dud EXCEPT !.pc = "parse", !.res = proxy.response,
                                    !.tx = output_map["S"][id]]
              /\ output_map' = [output_map EXCEPT !["S"] = MapRemove(@, id)]
         ELSE /\ dud' = [dud EXCEPT !.pc = "panicked"]
              /\ UNCHANGED output_map
    /\ proxy' = IdleProxy
    /\ UNCHANGED <<process_queue, waiter, next_uuid, inbox, tool, poll,
                   plugin_vars, hist_vars>>
    /\ UNCHANGED life_vars
    /\ MutexGuardDrop("S", ForwarderTask)
    /\ UNCHANGED rival

\* Faulty variant: the wrong field of the reply is handed on
ParseRunCommandResponseId(body) ==
    IF {"response", "id"} \subseteq DOMAIN body
      THEN Ok(<<"id", body.id>>)
      ELSE Err(<<"error decoding response body">>)

\* res.json::<RunCommandResponse>().map(|r| r.response), lines 2079-2083: the
\* body parses only when it has both fields of RunCommandResponse.
ParseRunCommandResponse(body) ==
    IF {"response", "id"} \subseteq DOMAIN body
      THEN Ok(body.response)
      ELSE Err(<<"error decoding response body">>)

\* lines 2079-2084: parse the body and send the outcome into the inbox;
\* the unwrap of line 2084 panics when the receiver is gone.
dud_proxy_loop_send ==
    /\ Forwarding
    /\ dud.pc = "parse"
    /\ IF RxDropped(dud.tx)
         THEN /\ dud' = [dud EXCEPT !.pc = "panicked"]
              /\ UNCHANGED inbox
         ELSE /\ inbox' = ChanSend(inbox, dud.tx, ParseRunCommandResponse(dud.res))
              /\ dud' = [dud EXCEPT !.pc = "top", !.entry = None, !.res = None,
                                     !.tx = NoChan]
    /\ UNCHANGED <<process_queue, output_map, waiter, next_uuid, tool, poll, proxy,
                   plugin_vars, hist_vars>>
    /\ UNCHANGED life_vars
    /\ UNCHANGED lock
    /\ UNCHANGED rival

\* ---------------------------------------------------------- the state lock
\* Task t of instance i stands before a state.lock().await (lines 1980,
\* 1993, 2008, 2029, 2045, 2051, 2061, 2063 and 2072).
LockPoint(i, t) ==
    \/ \E d \in Dispatchers :
          /\ t = ToolTask(d)
          /\ \/ /\ tool[d].pc = "idle" /\ TransportOpen(i)
                /\ \A e \in Dispatchers : e < d => tool[e].pc # "idle"
             \/ tool[d].pc = "remove" /\ tool[d].home = i /\ Alive(i)
    \/ \E p \in Pollers :
          t = PollTask(p) /\ i = "P" /\ Alive("P") /\ poll[p].pc = "lock"
    \/ t = ResponseTask /\ i = "P" /\ Alive("P") /\ post.status = "sent"
    \/ /\ t = ProxyTask /\ i = "P"
       /\ \/ Accepting /\ \E command \in ProxyPosted : ~IdMissing(command)
          \/ Alive("P") /\ proxy.pc = "remove"
    \/ /\ t = ForwarderTask /\ i = "S" /\ Forwarding
       /\ \/ dud.pc = "start"
          \/ dud.pc = "top" /\ ExitIsEmpty
          \/ dud.pc = "post" /\ proxy.pc = "replied" /\ proxy.peer = "dud"

\* state.lock().await completes for task t: it holds the guard, and every
\* other task that asks for the lock of instance i waits.
state_lock(i, t) ==
    /\ lock[i] = Unlocked
    /\ \A j \in Instances : lock[j] # t       \* a task asks for one lock at a time
    /\ LockPoint(i, t)
    /\ lock' = [lock EXCEPT ![i] = t]
    /\ UNCHANGED <<state_vars, task_vars, plugin_vars, hist_vars, life_vars>>
    /\ UNCHANGED rival

\* ------------------------------------------------------------------- main
\* A process is started with a command line.
launch(i, a) ==
    /\ run[i].pc = "absent"
    /\ args' = [args EXCEPT ![i] = a]
    /\ run' = [run EXCEPT ![i].pc = "main"]
    /\ UNCHANGED <<state_vars, task_vars, plugin_vars, hist_vars,
                   close_signal, close_rx, server_handle, signal_log>>
    /\ UNCHANGED lock
    /\ UNCHANGED rival

\* clap, lines 32-40: the subcommand word; "stdio" is an alias of "server".
ParseCommand(sub) ==
    IF sub \in {"server", "stdio"} THEN "Server"
    ELSE IF sub = "studio-install" THEN "StudioInstall"
    ELSE "None"

\* Faulty variant: --stdio is looked at before --studio-install
SelectCommandStdioFirst(a) ==
    IF a.stdio THEN "Server"
    ELSE IF a.studio_install THEN "StudioInstall"
    ELSE ParseCommand(a.sub)

\* lines 53-59: the legacy flags come before the subcommand.
SelectCommand(a) ==
    IF a.studio_install THEN "StudioInstall"
    ELSE IF a.stdio THEN "Server"
    ELSE ParseCommand(a.sub)

\* lines 52-65: select the command and start it.  The installers are
\* outside the bridge: the process is followed no further.
main(i) ==
    /\ run[i].pc = "main"
    /\ LET command == SelectCommand(args[i]) IN
       run' = [run EXCEPT ![i].command = command,
                          ![i].pc = CASE command = "Server" -> "bind"
                                      [] command = "StudioInstall" -> "studio_install"
                                      [] OTHER -> "install"]
    /\ UNCHANGED <<state_vars, task_vars, plugin_vars, hist_vars, args,
                   close_signal, close_rx, server_handle, signal_log>>
    /\ UNCHANGED lock
    /\ UNCHANGED rival

\* ------------------------------------------------------------- run_server
\* The port is bound by the primary's listener.
PortHeld == run["P"].pc # "exit" /\ server_handle["P"].task = "http"
               /\ server_handle["P"].pc \in {"serving", "draining"}

\* "P" names the process that binds while the port is free, "S" the one
\* that binds while "P" holds it; any other failure can hit both.
BindPossible(i, os) ==
    /\ os = "Listener" => (i = "P" /\ ~PortHeld)
    /\ os = "AddrInUse" => (i = "S" /\ PortHeld)
    /\ i = "S" => PortHeld

\* Faulty variant: address-in-use is an error like any other
bind_studio_listener_strict(os) ==
    IF os = "Listener" THEN Ok("Listener") ELSE Err(os)

\* Faulty variant: every bind failure is taken for address-in-use
bind_studio_listener_lenient(os) ==
    IF os = "Listener" THEN Ok("Listener") ELSE Ok("AddrInUse")

\* lines 179-185
bind_studio_listener(os) ==
    IF os = "Listener" THEN Ok("Listener")
    ELSE IF os = "AddrInUse" THEN Ok("AddrInUse")
    ELSE Err(os)

\* lines 78-117: bind, then spawn the HTTP server or the forwarder, or
\* return the error.
run_server_bind(i, os) ==
    /\ run[i].pc = "bind"
    /\ BindPossible(i, os)
    /\ LET bind_outcome == bind_studio_listener(os) IN
       IF ~bind_outcome.ok
         THEN /\ run' = [run EXCEPT ![i].pc = "exit", ![i].bound = os,
                                    ![i].result = Err(bind_outcome.val)]
              /\ UNCHANGED <<server_handle, dud>>
         ELSE /\ run' = [run EXCEPT ![i].pc = "serve", ![i].bound = os]
              /\ IF bind_outcome.val = "Listener"
                   THEN /\ server_handle' = [server_handle EXCEPT ![i] = HttpTask]
                        /\ UNCHANGED dud
                   ELSE /\ server_handle' = [server_handle EXCEPT ![i] = DudTask]
                        /\ dud' = [IdleDud EXCEPT !.pc = "start"]
    /\ UNCHANGED <<state_vars, tool, poll, proxy, plugin_vars, hist_vars,
                   args, close_signal, close_rx, signal_log>>
    /\ UNCHANGED lock
    /\ UNCHANGED rival

\* lines 120-125: the MCP transport is set up on stdin/stdout; a failure is
\* returned with `?`.
run_server_serve(i, served) ==
    /\ run[i].pc = "serve"
    /\ run' = IF served
                THEN [run EXCEPT ![i].pc = "waiting"]
                ELSE [run EXCEPT ![i].pc = "exit", ![i].result = Err("serve")]
    /\ UNCHANGED <<state_vars, task_vars, plugin_vars, hist_vars,
                   args, close_signal, close_rx, server_handle, signal_log>>
    /\ UNCHANGED lock
    /\ UNCHANGED rival

\* line 126: service.waiting() returns when the MCP client disconnects; a
\* join error of the service task is returned with `?`.
run_server_waiting(i, quit) ==
    /\ run[i].pc = "waiting"
    /\ run' = IF quit
                THEN [run EXCEPT ![i].pc = "signal"]
                ELSE [run EXCEPT ![i].pc = "exit", ![i].result = Err("join")]
    /\ UNCHANGED <<state_vars, task_vars, plugin_vars, hist_vars,
                   args, close_signal, close_rx, server_handle, signal_log>>
    /\ UNCHANGED lock
    /\ UNCHANGED rival

\* Faulty variant: the sender is used without being taken out of the latch
signal_shutdown_again(i, caller) ==
    /\ close_signal' = close_signal
    /\ close_rx' = [close_rx EXCEPT ![i] = IF @ = "empty" THEN "sent" ELSE @]
    /\ signal_log' = [signal_log EXCEPT
                         ![i] = Append(@, [caller |-> caller, sent |-> TRUE])]

\* Faulty variant: the sender is taken out of the latch and dropped unused
signal_shutdown_mute(i, caller) ==
    /\ close_signal' = [close_signal EXCEPT ![i] = FALSE]
    /\ close_rx' = close_rx
    /\ signal_log' = [signal_log EXCEPT
                         ![i] = Append(@, [caller |-> caller, sent |-> close_signal[i]])]

\* lines 155-160: take the sender out of the latch and, if it was there,
\* send; the outcome of the send is dropped.
signal_shutdown(i, caller) ==
    /\ close_signal' = [close_signal EXCEPT ![i] = FALSE]
    /\ close_rx' = [close_rx EXCEPT
                       ![i] = IF close_signal[i] /\ @ = "empty" THEN "sent" ELSE @]
    /\ signal_log' = [signal_log EXCEPT
                         ![i] = Append(@, [caller |-> caller, sent |-> close_signal[i]])]

\* line 128
run_server_signal(i) ==
    /\ run[i].pc = "signal"
    /\ signal_shutdown(i, "run_server")
    /\ run' = [run EXCEPT ![i].pc = "join"]
    /\ UNCHANGED <<state_vars, task_vars, plugin_vars, hist_vars, args, server_handle>>
    /\ UNCHANGED lock
    /\ UNCHANGED rival

\* Faulty variant: a failed background task still ends the process with Ok
JoinResultOk(handle) ==
    IF handle.pc = "panicked" THEN Err("JoinError") ELSE Ok("()")

\* lines 130-144: the result of run_server from the joined task
JoinResult(handle) ==
    IF handle.pc = "panicked" THEN Err("JoinError") ELSE handle.result

\* lines 130-144: server_handle.await
run_server_join(i) ==
    /\ run[i].pc = "join"
    /\ server_handle[i].pc \in {"finished", "panicked"}
    /\ run' = [run EXCEPT ![i].pc = "exit", ![i].result = JoinResult(server_handle[i])]
    /\ UNCHANGED <<state_vars, task_vars, plugin_vars, hist_vars,
                   args, close_signal, close_rx, server_handle, signal_log>>
    /\ UNCHANGED lock
    /\ UNCHANGED rival

\* ------------------------------------------------------ spawn_http_server
\* lines 93-97: with_graceful_shutdown sees the close message: the listener
\* stops accepting, requests in flight are let finish.
http_graceful_shutdown ==
    /\ Accepting
    /\ close_rx["P"] = "sent"
    /\ server_handle' = [server_handle EXCEPT !["P"].pc = "draining"]
    /\ UNCHANGED <<state_vars, task_vars, plugin_vars, hist_vars,
                   args, run, close_signal, close_rx, signal_log>>
    /\ UNCHANGED lock
    /\ UNCHANGED rival

\* Faulty variant: the requests of /proxy are not waited for
InFlightNoProxy ==
    \/ \E p \in Pollers : Active(p)
    \/ post.status = "sent"

\* A request of the primary's HTTP server has not been answered yet.
InFlight ==
    \/ \E p \in Pollers : Active(p)
    \/ post.status = "sent"
    \/ proxy.pc # "idle"

\* Faulty variant: the task never signals
spawn_http_server_quiet(result) == "finished"

\* lines 170-175: what the task does with the result of the server future
spawn_http_server(result) == IF result.ok THEN "finished" ELSE "signal"

\* lines 93-98 and 170: the server future ends with Ok once it has drained.
http_server_done ==
    /\ Alive("P")
    /\ server_handle["P"].task = "http" /\ server_handle["P"].pc = "draining"
    /\ ~InFlight
    /\ server_handle' = [server_handle EXCEPT
                            !["P"].pc = spawn_http_server(Ok("()")),
                            !["P"].result = Ok("()")]
    /\ UNCHANGED <<state_vars, task_vars, plugin_vars, hist_vars,
                   args, run, close_signal, close_rx, signal_log>>
    /\ UNCHANGED lock
    /\ UNCHANGED rival

\* lines 93-98 and 170: the server future ends with an error; close_rx goes
\* with it.
http_server_fail ==
    /\ Alive("P")
    /\ server_handle["P"].task = "http"
    /\ server_handle["P"].pc \in {"serving", "draining"}
    /\ server_handle' = [server_handle EXCEPT
                            !["P"].pc = spawn_http_server(Err("http")),
                            !["P"].result = Err("http")]
    /\ close_rx' = [close_rx EXCEPT !["P"] = IF @ = "empty" THEN "dropped" ELSE @]
    /\ UNCHANGED <<state_vars, task_vars, plugin_vars, hist_vars,
                   args, run, close_signal, signal_log>>
    /\ UNCHANGED lock
    /\ UNCHANGED rival

\* lines 171-175: signal_shutdown, then the task returns the error.
spawn_http_server_signal ==
    /\ Alive("P")
    /\ server_handle["P"].task = "http" /\ server_handle["P"].pc = "signal"
    /\ signal_shutdown("P", "http")
    /\ server_handle' = [server_handle EXCEPT !["P"].pc = "finished"]
    /\ UNCHANGED <<state_vars, task_vars, plugin_vars, hist_vars, args, run>>
    /\ UNCHANGED lock
    /\ UNCHANGED rival

\* ------------------------------------------- the forwarder task, main.rs
\* line 2062: exit.is_empty() is false at the top of the loop: the loop
\* ends and dud_proxy_loop returns.
dud_proxy_loop_exit ==
    /\ Forwarding
    /\ dud.pc = "top"
    /\ ~ExitIsEmpty /\ lock["S"] # ForwarderTask
    /\ dud' = [dud EXCEPT !.pc = "returned"]
    /\ server_handle' = [server_handle EXCEPT !["S"].pc = "signal"]
    /\ UNCHANGED <<state_vars, tool, poll, proxy, plugin_vars, hist_vars,
                   args, run, close_signal, close_rx, signal_log>>
    /\ UNCHANGED lock
    /\ UNCHANGED rival

\* Faulty variant: a forwarder whose POST fails takes over the port and serves
dud_proxy_loop_failed_takeover ==
    /\ Forwarding
    /\ dud.pc = "post"
    /\ \/ proxy.pc = "idle" /\ ~Accepting
       \/ proxy.pc \in {"recv", "remove"} /\ proxy.peer = "dud" /\ ~Alive("P")
    /\ proxy' = IdleProxy
    /\ dud' = [dud EXCEPT !.pc = "returned", !.entry = None]
    /\ server_handle' = [server_handle EXCEPT !["S"] = HttpTask]
    /\ run' = [run EXCEPT !["S"].bound = "Listener"]
    /\ UNCHANGED <<state_vars, tool, poll, plugin_vars, hist_vars,
                   args, close_signal, close_rx, signal_log, lock>>
    /\ UNCHANGED rival

\* lines 2065-2070 and 2085-2087: the POST to /proxy fails (nobody accepts
\* on the port, or the primary ended with the request in flight): the
\* failure is logged and the loop goes on; the inbox stays registered.
dud_proxy_loop_failed ==
    /\ Forwarding
    /\ dud.pc = "post"
    /\ \/ proxy.pc = "idle" /\ ~Accepting
       \/ proxy.pc \in {"recv", "remove"} /\ proxy.peer = "dud" /\ ~Alive("P")
    /\ proxy' = IdleProxy
    /\ dud' = [dud EXCEPT !.pc = "top", !.entry = None]
    /\ UNCHANGED <<state_vars, tool, poll, plugin_vars, hist_vars, life_vars>>
    /\ UNCHANGED lock
    /\ UNCHANGED rival

\* The forwarder panicked: the task unwinds, and joining it gives a
\* JoinError; line 109 is not reached.
dud_task_unwind ==
    /\ Forwarding
    /\ dud.pc = "panicked"
    /\ server_handle' = [server_handle EXCEPT !["S"].pc = "panicked"]
    /\ UNCHANGED <<state_vars, task_vars, plugin_vars, hist_vars,
                   args, run, close_signal, close_rx, signal_log>>
    /\ UNCHANGED lock
    /\ UNCHANGED rival

\* main.rs lines 109-110: signal_shutdown, then the task returns Ok(()).
dud_task_signal ==
    /\ Alive("S")
    /\ server_handle["S"].task = "dud" /\ server_handle["S"].pc = "signal"
    /\ signal_shutdown("S", "dud")
    /\ server_handle' = [server_handle EXCEPT !["S"].pc = "finished",
                                               !["S"].result = Ok("()")]
    /\ UNCHANGED <<state_vars, task_vars, plugin_vars, hist_vars, args, run>>
    /\ UNCHANGED lock
    /\ UNCHANGED rival

\* The plugin is expected to run a single poller.
SinglePoller == {p \in Pollers : \A q \in Pollers : p <= q}

\* The first tool call of a run.
FirstCall == {d \in Dispatchers : \A e \in Dispatchers : d <= e}

\* An MCP client calls a tool of instance i.
ToolCall(i) == \E d \in Dispatchers : generic_tool_run_enqueue(i, d)

\* Steps of the tool calls under way.
ToolRun ==
    \/ \E d \in Dispatchers : generic_tool_run_trigger(d)
    \/ \E d \in Dispatchers : generic_tool_run_recv(d)
    \/ \E d \in Dispatchers : generic_tool_run_remove(d)

\* Steps of the /request connections in PS, and of the clock.
PollStep(PS) ==
    \/ \E p \in PS : request_handler_start(p)
    \/ \E p \in PS : request_handler_check(p)
    \/ \E p \in PS : request_handler_changed(p)
    \/ \E p \in PS : request_handler_timeout(p)
    \/ Tick

\* A plugin that answers every invocation it receives, once.
AnswerStep ==
    \/ \E inv \in received : plugin_answer(inv)
    \/ response_handler

\* A primary, any number of pollers racing on its queue.
Next == ToolCall("P") \/ ToolRun \/ PollStep(Pollers) \/ AnswerStep

Spec == Init /\ [][Next]_vars

\* A primary and one poller, with a plugin that also posts replies nobody
\* waits for.
NextAny ==
    \/ ToolCall("P") \/ ToolRun \/ PollStep(SinglePoller) \/ AnswerStep
    \/ \E id \in PostableIds : plugin_post_any(id)

SpecAny == Init /\ [][NextAny]_vars

\* Steps of the second process and of the primary's /proxy route.
ProxyStep ==
    \/ dud_proxy_loop_start
    \/ dud_proxy_loop_pop
    \/ dud_proxy_loop_changed
    \/ dud_proxy_loop_take
    \/ dud_proxy_loop_send
    \/ proxy_handler_enqueue
    \/ proxy_handler_recv
    \/ proxy_handler_remove

\* A primary with its plugin, and a secondary that forwards to it.
NextBridge ==
    \/ ToolCall("P") \/ ToolCall("S") \/ ToolRun
    \/ PollStep(SinglePoller) \/ AnswerStep \/ ProxyStep

SpecBridge == InitBridge /\ [][NextBridge]_vars

\* The bridge of two processes, where the POST /proxy of the forwarder may
\* also be answered with an error body.
NextBridgeErr == NextBridge \/ proxy_reply_error

SpecBridgeErr == InitBridge /\ [][NextBridgeErr]_vars

\* ----------------------------------------------- the life of the processes
\* No process has been started yet.
InitLife ==
    /\ InitCommon /\ dud = IdleDud
    /\ args = [i \in Instances |-> NoArgs]
    /\ run = [i \in Instances |-> NotStarted]
    /\ close_signal = [i \in Instances |-> TRUE]
    /\ close_rx = [i \in Instances |-> "empty"]
    /\ server_handle = [i \in Instances |-> NoTask]
    /\ signal_log = [i \in Instances |-> <<>>]

\* Steps of main and run_server of process i, started with one of Lines.
RunStep(i, Lines) ==
    \/ \E a \in Lines : launch(i, a)
    \/ main(i)
    \/ \E os \in BindResults : run_server_bind(i, os)
    \/ \E served \in BOOLEAN : run_server_serve(i, served)
    \/ \E quit \in BOOLEAN : run_server_waiting(i, quit)
    \/ run_server_signal(i)
    \/ run_server_join(i)

\* Steps of the HTTP task of the primary.
HttpStep ==
    \/ http_graceful_shutdown
    \/ http_server_done
    \/ http_server_fail
    \/ spawn_http_server_signal

\* Steps of the forwarder task of the secondary at its ends.
DudTaskStep ==
    \/ dud_proxy_loop_exit
    \/ dud_proxy_loop_failed
    \/ dud_task_signal
    \/ dud_task_unwind

\* Steps of the /request connections in PS of a primary that serves no
\* tool call of its own: its notifier is never pulsed.
PollStepQuiet(PS) ==
    \/ \E p \in PS : request_handler_start(p)
    \/ \E p \in PS : request_handler_check(p)
    \/ \E p \in PS : request_handler_timeout(p)
    \/ Tick

\* Both processes from their start to their end, with one tool call, made
\* on the secondary, that may be cancelled.
NextLife ==
    \/ RunStep("P", {ServerArgs}) \/ RunStep("S", {ServerArgs})
    \/ HttpStep \/ DudTaskStep
    \/ \E d \in FirstCall : generic_tool_run_enqueue("S", d)
    \/ ToolRun
    \/ \E d \in Dispatchers : generic_tool_run_cancel(d)
    \/ PollStepQuiet(SinglePoller) \/ AnswerStep \/ ProxyStep

SpecLife == InitLife /\ [][NextLife]_vars

\* Both processes from any command line to their end, with no tool call.
NextMain ==
    \/ RunStep("P", ArgLines) \/ RunStep("S", ArgLines) \/ HttpStep
    \/ dud_proxy_loop_start \/ dud_proxy_loop_pop
    \/ dud_proxy_loop_exit \/ dud_task_signal

SpecMain == InitLife /\ [][NextMain]_vars

\* The tokio runtime runs every task that is ready, timers fire, and the
\* plugin keeps polling and answers what it receives.  The tokio Mutex is
\* fair and its critical sections are short, so a poller that keeps asking
\* for the lock gets it: the deadline cannot beat it to the lock every time.
ServerFairness ==
    /\ \A d \in Dispatchers :
          /\ WF_vars(generic_tool_run_trigger(d))
          /\ WF_vars(generic_tool_run_recv(d))
          /\ WF_vars(generic_tool_run_remove(d))
    /\ \A p \in SinglePoller :
          /\ WF_vars(request_handler_start(p))
          /\ SF_vars(request_handler_check(p))
          /\ WF_vars(request_handler_changed(p))
          /\ WF_vars(request_handler_timeout(p))
    /\ WF_vars(Tick)
    /\ WF_vars(\E inv \in received : plugin_answer(inv))
    /\ WF_vars(response_handler)

\* A primary with a plugin that runs one poller, re-issues GET /request and
\* answers every invocation it receives, under fair scheduling.
NextLive == ToolCall("P") \/ ToolRun \/ PollStep(SinglePoller) \/ AnswerStep

SpecLive == Init /\ [][NextLive]_vars /\ ServerFairness

\* The forwarder task and the primary's /proxy handler run when ready, and
\* the loopback HTTP calls succeed.
ProxyFairness ==
    /\ WF_vars(dud_proxy_loop_start)
    /\ WF_vars(dud_proxy_loop_pop)
    /\ WF_vars(dud_proxy_loop_changed)
    /\ WF_vars(dud_proxy_loop_take)
    /\ WF_vars(dud_proxy_loop_send)
    /\ WF_vars(proxy_handler_enqueue)
    /\ WF_vars(proxy_handler_recv)
    /\ WF_vars(proxy_handler_remove)

\* The bridge of two processes under fair scheduling, with a plugin that
\* polls the primary and answers what it receives; the MCP clients call the
\* tools of the secondary, after at most one call on the primary.
NextBridgeLive ==
    \/ \E d \in FirstCall : generic_tool_run_enqueue("P", d)
    \/ ToolCall("S") \/ ToolRun \/ PollStep(SinglePoller) \/ AnswerStep \/ ProxyStep

SpecBridgeLive ==
    InitBridge /\ [][NextBridgeLive]_vars /\ ServerFairness /\ ProxyFairness

\* The bridge of two processes, where taking the lock of an AppState is a
\* step of its own: a task can be seen holding the guard.
NextLock ==
    \/ NextBridge
    \/ \E i \in Instances : \E t \in Tasks : state_lock(i, t)

SpecLock == InitBridge /\ [][NextLock]_vars

\* The bridge of two processes with one tool call, made on either of them,
\* where other clients also POST to /proxy of the primary, with bodies of
\* their choice.
NextProxyAny ==
    \/ \E i \in Instances : \E d \in FirstCall : generic_tool_run_enqueue(i, d)
    \/ ToolRun \/ PollStep(SinglePoller) \/ AnswerStep \/ ProxyStep
    \/ \E d \in Dispatchers : generic_tool_run_closed(d)
    \/ \E command \in ProxyBodies : proxy_post_any(command)
    \/ proxy_client_read

SpecProxyAny == InitBridge /\ [][NextProxyAny]_vars

\* Steps of a second request to /proxy.
RivalStep ==
    \/ \E command \in ProxyBodies : rival_post_any(command)
    \/ rival_handler_enqueue
    \/ rival_handler_recv
    \/ rival_handler_closed
    \/ rival_handler_remove
    \/ rival_client_read

\* The bridge of two processes with one tool call, made on either of them,
\* where another client POSTs to /proxy of the primary while the call, or
\* the request that forwards it, is in flight.
NextRival ==
    \/ \E i \in Instances : \E d \in FirstCall : generic_tool_run_enqueue(i, d)
    \/ ToolRun \/ PollStep(SinglePoller) \/ AnswerStep \/ ProxyStep
    \/ \E d \in Dispatchers : generic_tool_run_closed(d)
    \/ proxy_handler_closed
    \/ RivalStep

SpecRival == InitBridge /\ [][NextRival]_vars

\* ------------------------------------------------------------------ claims
Range(f) == {f[x] : x \in DOMAIN f}

\* The invocation call d enqueued.
Invocation(d) == [args |-> d, id |-> tool[d].id]

\* C1: every reply in a dispatcher's inbox, and every text a completed
\* dispatcher returns, is the response string of the accepted /response whose
\* id is the id stamped on that dispatcher's invocation, and that id is the
\* one the poller was handed; no reply reaches a dispatcher with another id.
C1_ReplyMatchesId ==
    \A d \in Dispatchers :
        /\ \A k \in DOMAIN inbox[ToolChan(d)] :
              /\ tool[d].pc \in {"pulse", "recv"}
              /\ tool[d].id \in DOMAIN accepted
              /\ inbox[ToolChan(d)][k] = Ok(accepted[tool[d].id])
        /\ tool[d].pc \in {"remove", "done"} =>
              /\ tool[d].id \in DOMAIN accepted
              /\ tool[d].pc = "done" =>
                    tool[d].result = [is_error |-> FALSE, text |-> accepted[tool[d].id]]
              /\ tool[d].pc = "remove" => tool[d].result = Ok(accepted[tool[d].id])

\* C1 witness: two dispatches completed, each with the text posted for its id.
C1_Witness ==
    \E d, e \in Dispatchers :
        /\ d # e
        /\ tool[d].pc = "done" /\ tool[e].pc = "done"
        /\ tool[d].result.text = Execute(Invocation(d))
        /\ tool[e].result.text = Execute(Invocation(e))

IsPrefix(s, t) == Len(s) <= Len(t) /\ s = SubSeq(t, 1, Len(s))

\* C2: on every instance the ids popped so far are, in order, the first ids
\* that were pushed, and the queue holds the rest in push order.
C2_Fifo ==
    \A i \in Instances :
        /\ IsPrefix(pop_log[i], enq_log[i])
        /\ pop_log[i] \o [k \in DOMAIN process_queue[i] |-> process_queue[i][k].id]
              = enq_log[i]

\* C2 witness: the primary handed out a local and a proxied invocation, and
\* the forwarder popped one, while another invocation was still queued.
C2_Witness ==
    /\ Len(pop_log["P"]) >= 1
    /\ Len(process_queue["P"]) >= 1
    /\ Len(pop_log["S"]) >= 1
    /\ \E d, e \in Dispatchers : tool[d].home = "S" /\ tool[e].home = "P"
                                  /\ tool[e].pc # "idle"

\* C3: no invocation is the body of more than one 200 response of /request.
C3_AtMostOnce ==
    /\ \A id \in DOMAIN handed : handed[id] = 1
    /\ \A p, q \in Pollers :
          (p # q /\ poll[p].pc = "ret200" /\ poll[q].pc = "ret200")
              => poll[p].body.id # poll[q].body.id

\* C3 witness: two pollers raced on a queue that held invocations and both
\* came back with one.
C3_Witness ==
    \E p, q \in Pollers :
        p # q /\ poll[p].pc = "ret200" /\ poll[q].pc = "ret200"

\* Call d has completed with the text the plugin computed for its invocation.
Completed(d) ==
    /\ tool[d].pc = "done"
    /\ tool[d].result = [is_error |-> FALSE, text |-> Execute(Invocation(d))]

\* C4: in a primary with a fair scheduler and a plugin that keeps polling and
\* answers what it receives, every dispatch that was started eventually
\* completes with the plugin's response text, and a dispatch only ever ends
\* with that text (it has no timeout of its own).
C4_DispatchCompletes ==
    /\ [](\A d \in Dispatchers : tool[d].pc = "done" => Completed(d))
    /\ \A d \in Dispatchers : (tool[d].pc # "idle") ~> Completed(d)

\* C4 witness: a dispatch completed after its first poll timed out with 423
\* and the plugin polled again.
C4_Witness ==
    \E d \in Dispatchers, p \in SinglePoller :
        /\ Completed(d)
        /\ poll[p].pc = "ret423"

\* C5: a dispatch issued against the secondary is popped by the forwarder,
\* pushed into the primary's queue by /proxy and handed to the plugin with
\* the id minted in the secondary, and it eventually completes in the
\* secondary with exactly the text posted to the primary's /response.
C5_SecondaryCompletes ==
    /\ [](\A inv \in received :
             \E d \in Dispatchers : tool[d].pc # "idle" /\ inv = Invocation(d))
    /\ [](\A d \in Dispatchers :
             (tool[d].pc = "done" /\ tool[d].home = "S") =>
                /\ Completed(d)
                /\ tool[d].id \in Range(pop_log["S"])
                /\ tool[d].id \in Range(pop_log["P"])
                /\ accepted[tool[d].id] = tool[d].result.text)
    /\ \A d \in Dispatchers :
          (tool[d].pc # "idle" /\ tool[d].home = "S") ~> Completed(d)

\* C5 witness: two dispatches of the secondary completed with the texts
\* the plugin posted to the primary, which never pulsed its notifier.
C5_Witness ==
    /\ ~waiter["P"]
    /\ \E d, e \in Dispatchers :
          /\ d # e
          /\ tool[d].home = "S" /\ Completed(d)
          /\ tool[e].home = "S" /\ Completed(e)

\* C6: a /request that returned 423 had reached its deadline and carries no
\* body; one that returned 200 carries an invocation that was popped from
\* the queue; and no /request is still pending a whole clock step after its
\* deadline.
C6_LongPoll ==
    \A p \in Pollers :
        /\ poll[p].pc = "ret423" =>
              /\ poll[p].elapsed >= LONG_POLL_DURATION
              /\ poll[p].body = None
        /\ poll[p].pc = "ret200" =>
              /\ poll[p].body # None
              /\ poll[p].body.id \in Range(pop_log["P"])
              /\ \E d \in Dispatchers : poll[p].body = Invocation(d)
        /\ Active(p) => poll[p].elapsed < LONG_POLL_DURATION + TickSeconds

\* C6 witness: one /request came back 423 at its deadline and another came
\* back 200 after having waited.
C6_Witness ==
    \E p, q \in Pollers :
        /\ poll[p].pc = "ret423"
        /\ poll[q].pc = "ret200" /\ poll[q].elapsed > 0

\* C7: an invocation in the queue never leaves a /request parked with no
\* wake-up on its way: a parked request whose receiver saw no change, with
\* the queue non-empty, has the enqueuer's pulse still pending.
C7_NoLostWake ==
    \A p \in Pollers :
        (poll[p].pc = "parked" /\ ~poll[p].changed /\ process_queue["P"] # <<>>)
            => \E d \in Dispatchers : tool[d].pc = "pulse" /\ tool[d].home = "P"

\* Call d waits for a reply that has not been accepted yet.
Waiting(d) == tool[d].pc \in {"pulse", "recv"} /\ tool[d].id \notin DOMAIN accepted

\* C8: handling a POST /response whose id is not a key of the map answers
\* with an error and changes neither the queue, the map nor any inbox; and
\* every dispatch still waiting keeps its inbox registered and empty.
C8_UnknownId ==
    /\ [][(/\ post.status = "sent"
           /\ post.id \notin DOMAIN output_map["P"]
           /\ post'.status # "sent")
             => (/\ post'.status = "error"
                 /\ UNCHANGED <<process_queue, output_map, inbox>>)]_vars
    /\ [](\A d \in Dispatchers :
             Waiting(d) => /\ tool[d].id \in DOMAIN output_map["P"]
                           /\ inbox[ToolChan(d)] = <<>>)

\* C8 witness: a post was refused while one dispatch was waiting, and a
\* dispatch has completed.
C8_Witness ==
    /\ post.status = "error"
    /\ \E d, e \in Dispatchers :
          /\ Waiting(d) /\ tool[d].pc = "recv"
          /\ Completed(e)

\* C9: once a tool call or a /proxy request has completed with a reply, its
\* id is not a key of the map of the instance it ran on.
C9_NoLeak ==
    /\ \A d \in Dispatchers :
          tool[d].pc = "done" => tool[d].id \notin DOMAIN output_map[tool[d].home]
    /\ proxy.pc = "replied" => proxy.command.id \notin DOMAIN output_map["P"]
    /\ \A i \in Instances : \A id \in DOMAIN output_map[i] :
          \/ \E d \in Dispatchers : tool[d].home = i /\ tool[d].id = id
                                     /\ tool[d].pc \in {"pulse", "recv", "remove"}
          \/ i = "P" /\ proxy.pc \in {"recv", "remove"} /\ proxy.command.id = id

\* C9 witness: a call on the primary and a call on the secondary have both
\* completed, and the /proxy request of the latter was answered.
C9_Witness ==
    \E d, e \in Dispatchers :
        /\ tool[d].home = "P" /\ tool[d].pc = "done"
        /\ tool[e].home = "S" /\ tool[e].pc = "done"

\* C10: every invocation the plugin holds can be answered whatever the
\* others' state: its id is registered, and handling a /response for a
\* registered id answers 200, removes the entry and puts the reply into that
\* dispatcher's inbox in the same step.
C10_AnyOrder ==
    /\ [](\A inv \in received : inv.id \in DOMAIN output_map["P"])
    /\ [][(/\ post.status = "sent"
           /\ post.id \in DOMAIN output_map["P"]
           /\ post'.status # "sent")
             => (/\ post'.status = "ok"
                 /\ post.id \notin DOMAIN output_map'["P"]
                 /\ inbox'[output_map["P"][post.id]]
                       = Append(inbox[output_map["P"][post.id]], Ok(post.response)))]_vars

\* C10 witness: the later of two polled dispatches has completed while the
\* earlier one, also polled, is still unanswered.
C10_Witness ==
    \E d, e \in Dispatchers :
        /\ d < e
        /\ Completed(e)
        /\ tool[d].pc = "recv" /\ Invocation(d) \in received

\* ------------------------------------------------- shutdown, fair scheduling
\* The MCP client of process i disconnects when it likes; what run_server
\* does next is scheduled like any task.
ShutdownStep(i) ==
    \/ \E quit \in BOOLEAN : run_server_waiting(i, quit)
    \/ run_server_signal(i)
    \/ run_server_join(i)

ShutdownFairness(i) ==
    /\ WF_vars(run_server_signal(i))
    /\ WF_vars(run_server_join(i))

\* A primary with its plugin, whose MCP transport closes at some time and
\* whose server future does not fail.
NextShutdownLive ==
    \/ NextLive \/ ShutdownStep("P")
    \/ http_graceful_shutdown \/ http_server_done

SpecShutdownLive ==
    /\ Init /\ [][NextShutdownLive]_vars
    /\ ServerFairness /\ ShutdownFairness("P")
    /\ WF_vars(http_graceful_shutdown) /\ WF_vars(http_server_done)

\* The same primary, whose server future may end with an error.
NextHttpFailLive == NextShutdownLive \/ http_server_fail \/ spawn_http_server_signal

SpecHttpFailLive ==
    /\ Init /\ [][NextHttpFailLive]_vars
    /\ ServerFairness /\ ShutdownFairness("P")
    /\ WF_vars(http_graceful_shutdown) /\ WF_vars(http_server_done)
    /\ WF_vars(spawn_http_server_signal)

\* The bridge of two processes, where the MCP transport of the secondary
\* closes at some time.
NextForwarderLive ==
    \/ NextBridgeLive \/ ShutdownStep("S")
    \/ dud_proxy_loop_exit \/ dud_task_signal

SpecForwarderLive ==
    /\ InitBridge /\ [][NextForwarderLive]_vars
    /\ ServerFairness /\ ProxyFairness /\ ShutdownFairness("S")
    /\ WF_vars(dud_proxy_loop_exit) /\ WF_vars(dud_task_signal)

\* C11: generic_tool_run turns Ok(text) taken from its inbox into a success
\* result with that text and Err(message) into a result flagged as an error
\* with that message; and an error handed on by the forwarder leaves the
\* forwarder task running.
C11_ToolResult ==
    /\ [][\A d \in Dispatchers :
            (tool[d].pc = "remove" /\ tool'[d].pc = "done") =>
                IF tool[d].result.ok
                  THEN tool'[d].result = [is_error |-> FALSE, text |-> tool[d].result.val]
                  ELSE tool'[d].result = [is_error |-> TRUE, text |-> tool[d].result.val]]_vars
    /\ [](dud.pc # "panicked")
    /\ [][(dud.pc = "parse" /\ dud'.pc # "parse") => dud'.pc = "top"]_vars

\* C11 witness: one dispatch ended with the error of an undecodable /proxy
\* answer, a later one with the plugin's text, through the same forwarder.
C11_Witness ==
    \E d, e \in Dispatchers :
        /\ d < e
        /\ tool[d].pc = "done" /\ tool[d].result.is_error
        /\ tool[d].result.text = <<"error decoding response body">>
        /\ tool[e].home = "S" /\ Completed(e)

\* run_server of process i went past line 126 and called signal_shutdown.
TransportClosed(i) ==
    \E k \in DOMAIN signal_log[i] : signal_log[i][k].caller = "run_server"

\* C12: a process whose bind gave a listener runs the HTTP task, and only
\* such a process has requests served; a process whose bind answered
\* address-in-use goes on (it does not end with that error) and runs the
\* forwarder; a process runs a background task exactly when its bind gave
\* one of these two outcomes, and the forwarder loop runs only in the second.
C12_BindRoles ==
    /\ \A i \in Instances :
          /\ run[i].bound = "Listener" => server_handle[i].task = "http"
          /\ run[i].bound = "AddrInUse" =>
                /\ server_handle[i].task = "dud"
                /\ run[i].result # Err("AddrInUse")
          /\ server_handle[i].task # "none" <=> run[i].bound \in {"Listener", "AddrInUse"}
    /\ dud.pc # "off" <=> server_handle["S"].task = "dud"
    /\ (InFlight \/ \E p \in Pollers : poll[p].pc # "idle")
          => run["P"].bound = "Listener"

\* C12 witness: one process bound the port and answered a /request, the
\* other found the port in use, runs the forwarder and has its transport
\* open.
C12_Witness ==
    /\ run["P"].bound = "Listener"
    /\ \E p \in Pollers : poll[p].pc = "ret423"
    /\ run["S"].bound = "AddrInUse" /\ run["S"].pc = "waiting"
    /\ dud.pc = "wait"

\* C13: a process whose bind failed in any other way has ended with that
\* very error, and has started neither a background task, nor the forwarder
\* loop, nor the MCP transport (no tool call, no shutdown signal).
C13_BindFatal ==
    \A i \in Instances :
        run[i].bound \notin {"none", "Listener", "AddrInUse"} =>
            /\ run[i].pc = "exit"
            /\ run[i].result = Err(run[i].bound)
            /\ server_handle[i] = NoTask
            /\ signal_log[i] = <<>>
            /\ i = "S" => dud.pc = "off"
            /\ \A d \in Dispatchers : tool[d].pc # "idle" => tool[d].home # i

\* C13 witness: the second process ended on a bind error that is not
\* address-in-use, while the first one serves.
C13_Witness ==
    /\ run["S"].bound = "AddrNotAvailable" /\ run["S"].pc = "exit"
    /\ run["P"].pc = "waiting"

\* C14: in a primary whose MCP transport closed, the latch is fired, no new
\* request is taken once the listener has stopped accepting, every request
\* still pending ends by its own long-poll deadline, and the process ends
\* with Ok after the HTTP task has finished.
C14_GracefulShutdown ==
    /\ [][\A p \in Pollers : (~Accepting /\ ~Active(p)) => ~Active(p)']_vars
    /\ [](\A p \in Pollers :
             Active(p) => poll[p].elapsed < LONG_POLL_DURATION + TickSeconds)
    /\ [](run["P"].pc = "join" => signal_log["P"] = <<[caller |-> "run_server", sent |-> TRUE]>>)
    /\ (run["P"].pc = "signal") ~>
          (/\ run["P"].pc = "exit" /\ run["P"].result = Ok("()")
           /\ server_handle["P"].pc = "finished" /\ ~InFlight)

\* C14 witness: the transport closed with a tool call waiting for its reply
\* and a /request parked; the latch is fired and the server is draining.
C14_Witness ==
    /\ run["P"].pc = "join"
    /\ server_handle["P"].pc = "draining"
    /\ \E p \in Pollers : poll[p].pc = "parked" /\ poll[p].elapsed > 0
    /\ \E d \in Dispatchers : tool[d].pc = "recv" /\ Invocation(d) \in received

\* C15: in a secondary, once run_server has got past the wait for the
\* transport, the forwarder loop ends and the process ends.
C15_ForwarderStops ==
    (run["S"].pc = "signal") ~> (run["S"].pc = "exit")

\* C16: when the server future ends with an error the HTTP task goes on to
\* signal_shutdown and then finishes with that error; when it ends with Ok
\* the task finishes with Ok at once, without calling signal_shutdown.
C16_HttpTaskResult ==
    /\ [][(server_handle["P"].result = Unset /\ server_handle'["P"].result # Unset) =>
            IF server_handle'["P"].result.ok
              THEN /\ server_handle'["P"].pc = "finished"
                   /\ signal_log' = signal_log
              ELSE server_handle'["P"].pc = "signal"]_vars
    /\ [][(server_handle["P"].pc = "signal" /\ server_handle'["P"].pc # "signal") =>
            /\ server_handle'["P"].pc = "finished"
            /\ server_handle'["P"].result = server_handle["P"].result
            /\ signal_log'["P"] = Append(signal_log["P"],
                                  [caller |-> "http", sent |-> close_signal["P"]])]_vars
    /\ [](server_handle["P"].pc = "finished" =>
             (server_handle["P"].result.ok <=>
                 \A k \in DOMAIN signal_log["P"] : signal_log["P"][k].caller # "http"))

\* C16 witness: the server future failed while the transport was open, and
\* the task fired the latch and finished with the error.
C16_Witness ==
    /\ server_handle["P"].pc = "finished"
    /\ server_handle["P"].result = Err("http")
    /\ signal_log["P"] = <<[caller |-> "http", sent |-> TRUE]>>
    /\ run["P"].pc = "waiting"

\* C17: once the server future has failed, the process ends, whether or not
\* the MCP client disconnects.
C17_FailureEndsProcess ==
    (server_handle["P"].result = Err("http")) ~> (run["P"].pc = "exit")

\* C18: in every process only the first call of signal_shutdown sends, so
\* the close message is sent at most once; the latch is empty from the first
\* call on, and a later call changes neither the latch nor the receiver.
C18_OneShot ==
    /\ [](\A i \in Instances :
             /\ \A k \in DOMAIN signal_log[i] : signal_log[i][k].sent <=> k = 1
             /\ close_signal[i] <=> signal_log[i] = <<>>)
    /\ [][\A i \in Instances :
            (Len(signal_log'[i]) > Len(signal_log[i]) /\ ~close_signal[i]) =>
                /\ close_signal'[i] = close_signal[i]
                /\ close_rx'[i] = close_rx[i]]_vars

\* C18 witness: in the primary the HTTP task and run_server both called
\* signal_shutdown, in the secondary run_server and the forwarder task did.
C18_Witness ==
    /\ Len(signal_log["P"]) = 2
    /\ Len(signal_log["S"]) = 2
    /\ signal_log["S"][2].caller = "dud"

\* C19: run_server has ended with Ok exactly when it got past the wait for
\* the transport and the background task it joined had finished with Ok; a
\* fatal bind error, a background task that returned an error and one that
\* panicked all end it with an error.
C19_ExitResult ==
    \A i \in Instances :
        run[i].pc = "exit" =>
            /\ run[i].result.ok <=>
                  /\ TransportClosed(i)
                  /\ server_handle[i].pc = "finished"
                  /\ server_handle[i].result = Ok("()")
            /\ run[i].bound \notin {"Listener", "AddrInUse"} => ~run[i].result.ok
            /\ (TransportClosed(i) /\ server_handle[i].pc = "finished"
                   /\ ~server_handle[i].result.ok)
                  => run[i].result = server_handle[i].result
            /\ (TransportClosed(i) /\ server_handle[i].pc = "panicked")
                  => run[i].result = Err("JoinError")

\* C19 witness: the secondary ended with the join error of its panicked
\* forwarder, the primary with Ok.
C19_Witness ==
    /\ run["S"].pc = "exit" /\ run["S"].result = Err("JoinError")
    /\ run["P"].pc = "exit" /\ run["P"].result = Ok("()")

\* C20: once main has selected, --studio-install has started the Studio
\* installer whatever else was given; otherwise --stdio has started the
\* bridge whatever the subcommand; with no flag, `server` and `stdio` start
\* the bridge, `studio-install` the Studio installer, and no subcommand the
\* interactive installer.
C20_CommandSelection ==
    \A i \in Instances :
        run[i].pc \notin {"absent", "main"} =>
            LET a == args[i]
                bridge == run[i].command = "Server"
                            /\ run[i].pc \notin {"install", "studio_install"}
            IN  /\ a.studio_install => run[i].pc = "studio_install"
                /\ (~a.studio_install /\ a.stdio) => bridge
                /\ (~a.studio_install /\ ~a.stdio) =>
                      /\ a.sub = "" => run[i].pc = "install"
                      /\ a.sub \in {"server", "stdio"} => bridge
                      /\ a.sub = "studio-install" => run[i].pc = "studio_install"

\* C20 witness: with both flags and a subcommand the Studio installer was
\* started, and with --stdio and the subcommand studio-install the bridge.
C20_Witness ==
    /\ args["P"] = [sub |-> "studio-install", studio_install |-> FALSE, stdio |-> TRUE]
    /\ run["P"].pc = "waiting"
    /\ args["S"] = [sub |-> "server", studio_install |-> TRUE, stdio |-> TRUE]
    /\ run["S"].pc = "studio_install"

\* C21: every step that pushes an invocation onto the queue of an instance
\* leaves its enqueuer about to pulse the notifier of that instance.
C21_EnqueuePulses ==
    [][\A i \in Instances :
          Len(enq_log'[i]) > Len(enq_log[i]) =>
              \E d \in Dispatchers :
                  /\ tool'[d].pc = "pulse" /\ tool'[d].home = i
                  /\ tool'[d].id = enq_log'[i][Len(enq_log'[i])]]_vars

\* The ids of the invocations in the queue of instance i.
QueuedIds(i) == {process_queue[i][k].id : k \in 1 .. Len(process_queue[i])}

\* C22: an invocation is never visible in a queue without an inbox under
\* its id: whenever the lock of an instance is free, every id in its queue
\* is a key of its correlation map, and the step that pushes an invocation
\* leaves the inbox of its enqueuer registered under the new id.
C22_RegisteredWhenVisible ==
    /\ [](\A i \in Instances :
            lock[i] = Unlocked => QueuedIds(i) \subseteq DOMAIN output_map[i])
    /\ [][\A i \in Instances :
            Len(enq_log'[i]) > Len(enq_log[i]) =>
                LET id == enq_log'[i][Len(enq_log'[i])] IN
                /\ id \in QueuedIds(i)' /\ id \in DOMAIN output_map'[i]
                /\ \/ output_map'[i][id] = ProxyChan /\ proxy'.pc = "recv"
                                                     /\ proxy'.command.id = id
                   \/ \E d \in Dispatchers :
                         /\ output_map'[i][id] = ToolChan(d)
                         /\ tool'[d].id = id /\ tool'[d].home = i]_vars

\* The queue of the primary holds an invocation pushed by generic_tool_run
\* and one pushed by proxy_handler, each with its inbox registered.
C22_Witness ==
    /\ proxy.pc = "recv"
    /\ proxy.command.id \in QueuedIds("P")
    /\ output_map["P"][proxy.command.id] = ProxyChan
    /\ \E d \in Dispatchers :
          /\ tool[d].home = "P" /\ tool[d].id \in QueuedIds("P")
          /\ output_map["P"][tool[d].id] = ToolChan(d)

\* Task t is suspended on an inbox (lines 1988-1990, 2049), on the notifier
\* (lines 2014, 2089), on the outbound HTTP call or the read of its
\* response (lines 2065-2069, 2079-2083), or was cut off by the deadline of
\* the long poll.
Suspended(t) ==
    \/ \E d \in Dispatchers : t = ToolTask(d) /\ tool[d].pc = "recv"
    \/ t = ProxyTask /\ proxy.pc = "recv"
    \/ \E p \in Pollers : t = PollTask(p) /\ poll[p].pc \in {"parked", "ret423"}
    \/ /\ t = ForwarderTask
       /\ \/ dud.pc \in {"wait", "parse"}
          \/ dud.pc = "post" /\ ~(proxy.pc = "replied" /\ proxy.peer = "dud")

\* The critical section task t of instance i runs once it has the lock.
Section(i, t) ==
    \/ \E d \in Dispatchers :
          t = ToolTask(d) /\ (generic_tool_run_enqueue(i, d) \/ generic_tool_run_remove(d))
    \/ \E p \in Pollers : t = PollTask(p) /\ request_handler_check(p)
    \/ t = ResponseTask /\ response_handler
    \/ t = ProxyTask /\ (proxy_handler_enqueue \/ proxy_handler_remove)
    \/ t = ForwarderTask
          /\ (dud_proxy_loop_start \/ dud_proxy_loop_pop \/ dud_proxy_loop_take)

\* C25: a task that holds the lock of an AppState is not suspended on an
\* inbox, the notifier, the outbound HTTP call or the deadline: it stands
\* before its critical section, and that section can run at once, whatever
\* the other tasks do, and ends with the lock free.
C25_NoLockAcrossAwait ==
    \A i \in Instances : \A t \in Tasks :
        lock[i] = t =>
            /\ ~Suspended(t)
            /\ LockPoint(i, t)
            /\ ENABLED (Section(i, t) /\ lock'[i] = Unlocked)

\* A poller holds the lock of the primary while /response and a dispatcher
\* wait, and the forwarder holds the lock of the secondary.
C25_Witness ==
    /\ \E p \in Pollers : lock["P"] = PollTask(p)
    /\ lock["S"] = ForwarderTask
    /\ post.status = "sent"
    /\ \E d \in Dispatchers : tool[d].pc = "recv"

\* C26: the step of the /response handler that sends the reply into the
\* inbox is not its critical section: it does not hold the lock and does
\* not work on the correlation map, which was done in an earlier step.
C26_SendAfterUnlock ==
    [][(post.status = "sent" /\ inbox' # inbox) =>
           /\ lock["P"] # ResponseTask
           /\ output_map' = output_map]_vars

\* C23: no invocation in a queue, handed to the plugin by /request or sent
\* to /proxy by the forwarder has a null id, and a POST /proxy with a null
\* id is answered with an error while the queue and the correlation map
\* stay as they were.
C23_IdNeverNull ==
    /\ [](/\ \A i \in Instances : NilUuid \notin QueuedIds(i)
          /\ \A inv \in received : inv.id # NilUuid
          /\ \A p \in Pollers : poll[p].pc = "ret200" => poll[p].body.id # NilUuid
          /\ dud.pc = "post" => dud.entry.id # NilUuid
          /\ \A i \in Instances : NilUuid \notin DOMAIN output_map[i])
    /\ [][(proxy.pc = "posted" /\ proxy.command.id = NilUuid /\ proxy' # proxy) =>
              /\ proxy'.pc = "replied"
              /\ DOMAIN proxy'.response = {"error"}
              /\ process_queue' = process_queue
              /\ output_map' = output_map]_vars

\* A POST /proxy with a null id was answered with the error while an
\* invocation sat in the queue of the primary.
C23_Witness ==
    /\ proxy.pc = "replied" /\ proxy.peer = "any"
    /\ proxy.command.id = NilUuid
    /\ DOMAIN proxy.response = {"error"}
    /\ process_queue["P"] # <<>>

\* C30: no registration replaces the inbox of a dispatcher that still
\* waits: while call d has not taken its reply, the key of its id keeps
\* its sender for as long as it is in the map.
C30_NoReplace ==
    [][\A d \in Dispatchers :
          LET i == tool[d].home
              id == tool[d].id IN
          (/\ tool[d].pc \in {"pulse", "recv"}
           /\ id \in DOMAIN output_map[i] /\ output_map[i][id] = ToolChan(d)
           /\ id \in DOMAIN output_map'[i])
              => output_map'[i][id] = ToolChan(d)]_vars

\* C24: an inbox is resolved at most once: an id whose /response was
\* accepted is no key of the map any more, a further /response with that id
\* is answered with the error and changes nothing, and the dispatcher of
\* the id gets the accepted response and no second value.
C24_ResolvedOnce ==
    /\ [](/\ \A id \in DOMAIN accepted : id \notin DOMAIN output_map["P"]
          /\ \A d \in Dispatchers :
                /\ Len(inbox[ToolChan(d)]) <= 1
                /\ inbox[ToolChan(d)] # <<>> =>
                       /\ tool[d].pc \in {"pulse", "recv"}
                       /\ inbox[ToolChan(d)][1] = Ok(accepted[tool[d].id])
                /\ tool[d].pc = "remove" => tool[d].result = Ok(accepted[tool[d].id])
                /\ tool[d].pc = "done" =>
                       tool[d].result = CallToolResult(Ok(accepted[tool[d].id])))
    /\ [][(post.status = "sent" /\ post.id \in DOMAIN accepted /\ post' # post) =>
              /\ post'.status = "error"
              /\ UNCHANGED <<output_map, inbox, accepted, tool>>]_vars
    /\ [][\A id \in DOMAIN accepted :
              id \in DOMAIN accepted' /\ accepted'[id] = accepted[id]]_vars

\* The dispatcher of an id has completed with the response that was
\* accepted, and another /response with the same id is on its way.
C24_Witness ==
    /\ post.status = "sent"
    /\ post.id \in DOMAIN accepted
    /\ post.response # accepted[post.id]
    /\ \E d \in Dispatchers :
          /\ tool[d].id = post.id /\ tool[d].pc = "done"
          /\ tool[d].result.text = accepted[post.id]

\* C27: when the answer of POST /proxy cannot be parsed as a reply, the
\* forwarder delivers nothing: no dispatcher of the secondary ever finds an
\* error in its inbox, and the step that takes up such an answer leaves the
\* map and the inboxes as they were and goes back to the top of the loop.
C27_FailedForwardDeliversNothing ==
    /\ [](\A d \in Dispatchers :
            tool[d].home = "S" =>
                \A k \in 1 .. Len(inbox[ToolChan(d)]) : inbox[ToolChan(d)][k].ok)
    /\ [][(/\ dud.pc = "post" /\ proxy.pc = "replied" /\ proxy.peer = "dud"
           /\ ~ParseRunCommandResponse(proxy.response).ok
           /\ dud' # dud) =>
              /\ dud'.pc = "top"
              /\ UNCHANGED <<output_map, inbox>>]_vars

\* C28: the cancellation of a dispatcher that waits for its reply harms
\* nobody else: the forwarder of its instance keeps running.
C28_CancelHarmless ==
    \A d \in Dispatchers :
        tool[d].pc = "cancelled" =>
            dud.pc # "panicked" /\ server_handle[tool[d].home].pc # "panicked"

\* C29: a receiver taken by /request after a pulse does not see that pulse:
\* the step that finds the queue empty and parks leaves the request with
\* nothing to see, whatever was pulsed before.
C29_FreshReceiverParks ==
    [][\A p \in Pollers :
          (poll[p].pc = "lock" /\ poll'[p].pc = "parked") => ~poll'[p].changed]_vars

\* C31: the step in which proxy_handler enqueues pushes the body it was
\* sent, payload and id, and mints no id; and the reply of /proxy carries
\* the id of its request and the response string of the /response that was
\* accepted for that id.
C31_ProxyKeepsId ==
    /\ [][(proxy.pc \in {"idle", "posted"} /\ proxy'.pc = "recv") =>
              /\ proxy'.command \in ProxyPosted
              /\ process_queue'["P"] = Append(process_queue["P"], proxy'.command)
              /\ output_map'["P"][proxy'.command.id] = ProxyChan
              /\ next_uuid' = next_uuid]_vars
    /\ [](\A k \in 1 .. Len(inbox[ProxyChan]) :
              inbox[ProxyChan][k] = Ok(accepted[proxy.command.id]))
    /\ []((proxy.pc = "replied" /\ ~IdMissing(proxy.command)) =>
              proxy.response = [response |-> accepted[proxy.command.id],
                                id |-> proxy.command.id])

\* The forwarder's POST /proxy was answered: the reply has the id the
\* secondary minted and the text the plugin computed from the payload.
C31_Witness ==
    /\ proxy.pc = "replied" /\ proxy.peer = "dud"
    /\ \E d \in Dispatchers :
          /\ tool[d].home = "S" /\ tool[d].id = proxy.command.id
          /\ proxy.command = Invocation(d)
          /\ proxy.response = [response |-> Execute(Invocation(d)), id |-> tool[d].id]

\* Invocations of the secondary that are at the primary: popped by the
\* forwarder, and queued there or waited for under their id.
Outstanding ==
    {id \in Range(pop_log["S"]) : id \in QueuedIds("P") \cup DOMAIN output_map["P"]}

\* C33: the forwarder handles one invocation at a time: it pops only at
\* the top of its loop, when no POST /proxy of its own is under way, and
\* at most one invocation of the secondary is at the primary.
C33_OneAtATime ==
    /\ [][Len(pop_log'["S"]) > Len(pop_log["S"]) =>
              /\ dud.pc = "top" /\ dud.entry = None
              /\ proxy.pc = "idle"
              /\ Outstanding = {}]_vars
    /\ [](Cardinality(Outstanding) <= 1)
    /\ []((proxy.pc # "idle" /\ proxy.peer = "dud") =>
              dud.pc = "post" /\ proxy.command = dud.entry)

\* One invocation of the secondary is at the primary while the next one
\* waits in the queue of the secondary.
C33_Witness ==
    /\ Cardinality(Outstanding) = 1
    /\ proxy.pc = "recv"
    /\ process_queue["S"] # <<>>

\* C34: the forwarder loop has ended, by returning or by a panic, only if
\* the shutdown latch of the secondary has fired.
C34_StopsOnlyAfterLatch ==
    dud.pc \in {"returned", "panicked"} => ~ExitIsEmpty

\* C35: the deadline of the long poll loses no invocation: the step in
\* which a /request ends with 423 leaves the queue as it was, and every
\* step that takes an invocation out of the queue of the primary is the
\* step of a /request that ends with 200 and that invocation as its body,
\* which the plugin receives.
C35_DeadlineLosesNothing ==
    /\ [][\A p \in Pollers :
              (poll[p].pc # "ret423" /\ poll'[p].pc = "ret423") =>
                  /\ process_queue' = process_queue /\ pop_log' = pop_log
                  /\ poll'[p].body = None]_vars
    /\ [][process_queue'["P"] # process_queue["P"] =>
              \/ /\ Len(process_queue'["P"]) = Len(process_queue["P"]) + 1
                 /\ IsPrefix(process_queue["P"], process_queue'["P"])
              \/ \E p \in Pollers :
                    /\ poll[p].pc = "lock" /\ poll'[p].pc = "ret200"
                    /\ poll'[p].body = Head(process_queue["P"])
                    /\ process_queue'["P"] = Tail(process_queue["P"])
                    /\ poll'[p].body \in received']_vars
    /\ [](\A k \in 1 .. Len(pop_log["P"]) : pop_log["P"][k] \in DOMAIN handed)

\* A /request ended with 423 at its deadline while an invocation, enqueued
\* as it waited for the lock, stays in the queue.
C35_Witness ==
    \E p \in Pollers :
        /\ poll[p].pc = "ret423"
        /\ process_queue["P"] # <<>>
        /\ Len(pop_log["P"]) < Len(enq_log["P"])

\* C36: the pulse of generic_tool_run never fails: a receiver of the watch
\* channel is alive in every state, every step that leaves the pulse puts
\* the call in its inbox wait with the change published, and no call ends
\* with the error "Unable to trigger send".
C36_PulseNeverFails ==
    /\ [](\A i \in Instances : WatchReceivers(i) > 0)
    /\ [](\A d \in Dispatchers :
              tool[d].pc = "failed" =>
                  tool[d].result # [mcp_error |-> <<"Unable to trigger send">>])
    /\ [][\A d \in Dispatchers :
              (tool[d].pc = "pulse" /\ tool'[d].pc # "pulse") =>
                  tool'[d].pc = "recv" /\ waiter'[tool[d].home]]_vars

\* A call has pulsed and waits for its reply, and no /request was ever
\* made: AppState.waiter was the only receiver when the pulse was sent.
C36_Witness ==
    /\ \E d \in Dispatchers : tool[d].pc = "recv" /\ tool[d].home = "P"
    /\ \A p \in Pollers : poll[p].pc = "idle"
    /\ WatchClones("P") = 0

\* A POST /proxy has arrived at the primary and has no reply yet.
ProxyUnanswered == proxy.pc \in {"posted", "recv", "remove"}

Phase(handle) ==
    CASE handle.pc = "none" -> 0
      [] handle.pc \in {"serving", "running"} -> 1
      [] handle.pc \in {"draining", "signal"} -> 2
      [] handle.pc \in {"finished", "panicked"} -> 3

ToolInboxClosed(d) ==
    tool[d].pc = "recv" /\ inbox[ToolChan(d)] = <<>> /\ ~TxAlive(d)

\* The inbox of a /proxy request is closed.
ProxyInboxClosed(request, c) ==
    request.pc = "recv" /\ inbox[c] = <<>> /\ ~SenderAlive(c)

\* The error a closed inbox ends in.
ClosedError(request) ==
    /\ request.pc = "replied"
    /\ "error" \in DOMAIN request.response
    /\ request.response.error = <<"Couldn't receive response">>

\* C32: a generic_tool_run whose inbox is closed can take the step that ends
\* it, and the only way it leaves that wait is the internal error "Couldn't
\* receive response": it never ends as a success.  The same holds of a
\* proxy_handler, whose HTTP response is then that error.
C32_ClosedInboxIsError ==
    /\ [](\A d \in Dispatchers :
            ToolInboxClosed(d) /\ Alive(tool[d].home) =>
                ENABLED generic_tool_run_closed(d))
    /\ [](ProxyInboxClosed(proxy, ProxyChan) /\ Alive("P") => ENABLED proxy_handler_closed)
    /\ [](ProxyInboxClosed(rival, RivalChan) /\ Alive("P") => ENABLED rival_handler_closed)
    /\ [][\A d \in Dispatchers :
            ToolInboxClosed(d) =>
                \/ ToolInboxClosed(d)'
                \/ /\ tool'[d].pc = "failed"
                   /\ tool'[d].result = [mcp_error |-> <<"Couldn't receive response">>]]_vars
    /\ [][ProxyInboxClosed(proxy, ProxyChan) =>
               ProxyInboxClosed(proxy, ProxyChan)' \/ ClosedError(proxy')]_vars
    /\ [][ProxyInboxClosed(rival, RivalChan) =>
               ProxyInboxClosed(rival, RivalChan)' \/ ClosedError(rival')]_vars

\* The forwarded request was answered with the error of a closed inbox,
\* after another request took over its id; the call on the secondary still
\* waits.
C32_Witness ==
    /\ ClosedError(proxy) /\ proxy.peer = "dud"
    /\ rival.pc \in {"recv", "remove", "replied"}
    /\ rival.command.id = proxy.command.id
    /\ \E d \in Dispatchers : tool[d].pc = "recv" /\ tool[d].id = proxy.command.id
=============================================================================
